---- MODULE Spec2Model ----
(***************************************************************************)
(* The streaming event-reduction engine of the chat client: the hook       *)
(* useCodexEvents (session correlation, event dispatch, per-channel stream  *)
(* buffers, the flush scheduler, turn lifecycle, diff dedup) together with  *)
(* the interface of the conversation store it writes to; and the auth       *)
(* store with the token manager and the hook that drives it.                *)
(***************************************************************************)
EXTENDS Integers, Sequences, FiniteSets, TLC

(* ------------------------------ bounds --------------------------------- *)

\* Longest agent / reasoning buffer the model lets a stream grow to.
MaxBuf == 2

\* Most entries one session's transcript holds.
MaxEntries == 2

\* Largest value of the clock Date.now() reads.
MaxClock == 1

\* Most output chunks appended to one exec stream.
MaxChunks == 2

(* --------------------------- input domains ----------------------------- *)

\* The 'codex-event-' marker as one token of a session id.
Prefix == "codex-event-"

\* Session ids are sequences of tokens, so that String.replace can be modelled.
SessionA == <<Prefix, "A">>

SessionB == <<"B">>

\* A session id that holds the marker, but not as its prefix.
SessionX == <<"x", Prefix, "A">>

Sessions == {SessionA, SessionB, SessionX}

StreamIds == {"s1", "s2"}

Deltas == {"", "a", "b"}

Texts == {"", "a", "ab"}

Diffs == {"", "D", "E"}

CallIds == {"c1", "c2"}

\* msg.chunk: UTF-8 bytes ("f\n", a lone lead byte, a two-byte character).
Chunks == {<<>>, <<102, 10>>, <<195>>, <<195, 169>>}

Commands == {<<"ls">>, <<"ls", "-la">>}

Cwds == {"", "/tmp"}

ExitCodes == {0, 1}

Plans == {<<>>, <<[status |-> "done", step |-> "x"]>>}

ErrorMessages == {"boom"}

Rands == {"r1", "r2"}

ApprovalIds == {"p1"}

\* msg.session_id of a session_configured event (<<>> is the empty string).
EventSessionIds == {<<>>, <<"A">>, <<"B">>, <<"x", "A">>, <<Prefix, "A">>}

ReasoningDeltaTypes == {"agent_reasoning_delta", "agent_reasoning_raw_content_delta"}

ReasoningFinalTypes == {"agent_reasoning", "agent_reasoning_raw_content"}

ApprovalTypes == {"exec_approval_request", "patch_approval_request",
                  "apply_patch_approval_request"}

LoggedTypes == {"token_count", "token_count_update", "background_event", "unknown_tag"}

(* ------------------------------- state --------------------------------- *)

VARIABLES
  agentStreams,      \* Map id -> {messageId, buffer}
  reasoningStreams,  \* Map id -> {messageId, buffer}
  execStreams,       \* Map call_id -> {messageId, buffer}
  agentFlush,        \* Map id -> handle of the scheduled callback (the session
                     \* whose handler scheduled it stands for the handle)
  reasoningFlush,    \* Map id -> handle of the scheduled callback
  rafQueue,          \* the callbacks requestAnimationFrame holds, oldest first
  shownDiffs,        \* Set of raw diff texts
  currentStreamingMessageId,  \* string | null
  store,             \* the conversation store: messages, loading, conversations
  now,               \* Date.now()
  sessionId,         \* the hook's sessionId prop of the live effect, or NoSession
  listeners,         \* Map session -> the conversations value its registered
                     \* listen() callback closed over
  execChunks,        \* Map call_id -> output chunks appended so far (bounds the model)
  turn,              \* "Idle" / "Active": the class of the last lifecycle event
  lastEvent,         \* the feed event (or timer, or effect step) just processed
  dispatched,        \* whether handleCodexEvent ran for lastEvent
  calls,             \* the store / callback calls issued by the last step
  auth,              \* AuthStore: the AuthState
  inflight,          \* the safeInvoke calls the auth store awaits, oldest first
  pollIntervals,     \* OAuth flows whose polling interval is active
  pollTimeouts,      \* OAuth flows whose five-minute timeout is pending
  refreshInterval,   \* TokenManager.refreshInterval: a timer id, or 0 for null
  timers,            \* the refresh intervals setInterval holds
  authType           \* useAuthInitialization: the auth.type of its last render,
                     \* or "unmounted"

vars == <<agentStreams, reasoningStreams, execStreams, agentFlush, reasoningFlush,
          rafQueue, shownDiffs, currentStreamingMessageId, store, now, sessionId, listeners,
          execChunks, turn, lastEvent, dispatched, calls,
          auth, inflight, pollIntervals, pollTimeouts, refreshInterval, timers, authType>>

\* The auth store, the token manager and the auth initialisation hook.
authVars == <<auth, inflight, pollIntervals, pollTimeouts, refreshInterval, timers, authType>>

engineVars == <<agentStreams, reasoningStreams, execStreams, agentFlush,
                reasoningFlush, rafQueue, shownDiffs, currentStreamingMessageId, execChunks>>

hookVars == <<sessionId, listeners>>

(* ------------------------------ helpers -------------------------------- *)

EmptyMap == [k \in {} |-> k]

Has(m, k) == k \in DOMAIN m

MapSet(m, k, v) == [x \in (DOMAIN m) \cup {k} |-> IF x = k THEN v ELSE m[x]]

MapDelete(m, k) == [x \in (DOMAIN m) \ {k} |-> m[x]]

NoSession == <<>>

NoId == <<>>

Null == "null"

\* sessionId-kind-Date.now(); tag is the call_id of an exec id and
\* the random suffix of an error id, "" otherwise.
MessageId(sid, kind, tag, t) == <<sid, kind, tag, t>>

StreamEntry(messageId, buffer) == [messageId |-> messageId, buffer |-> buffer]

\* A feed event as the listener of session sid receives it (also used to
\* record a timer callback or an effect step as the last thing that ran).
Event(type, sid, id, arg) == [type |-> type, sid |-> sid, id |-> id, arg |-> arg]

\* One call on a collaborator. flag is the isStreaming field of a ChatMessage or
\* of an update ("unset" when the field is not given), or the boolean of
\* setSessionLoading as "true" / "false".
Call(op, sid, id, content, flag) ==
  [op |-> op, sid |-> sid, id |-> id, content |-> content, flag |-> flag, role |-> ""]

(* ------------------------- conversation store -------------------------- *)

\* addMessageToStore copies id, role, content and timestamp of the ChatMessage:
\* the isStreaming field of the message is not passed on.
ConversationMessage(c) ==
  [id |-> c.id, role |-> c.role, content |-> c.content, isStreaming |-> "unset"]

\* updateMessage(sessionId, messageId, partial): the partial fields overwrite
\* those of every message of the session with that id.
UpdateOne(m, c) ==
  IF m.id # c.id THEN m
  ELSE [m EXCEPT !.content = c.content,
                 !.isStreaming = IF c.flag = "unset" THEN @ ELSE c.flag]

StoreApply(st, c) ==
  CASE c.op = "addMessage" ->
         [st EXCEPT !.messages[c.sid] = Append(@, ConversationMessage(c))]
    [] c.op = "updateMessage" ->
         [st EXCEPT !.messages[c.sid] = [i \in DOMAIN @ |-> UpdateOne(@[i], c)]]
    [] c.op = "setSessionLoading" ->
         [st EXCEPT !.loading[c.sid] = (c.flag = "true")]
    [] c.op = "createConversation" ->
         [st EXCEPT !.conversations = @ \cup {c.sid}]
    [] OTHER -> st

RECURSIVE StoreApplyAll(_, _)
StoreApplyAll(st, cs) ==
  IF cs = <<>> THEN st ELSE StoreApplyAll(StoreApply(st, Head(cs)), Tail(cs))

\* The role addMessageToStore gives a ChatMessage of the given type.
Role(type) ==
  IF type = "user" THEN "user" ELSE IF type = "agent" THEN "assistant" ELSE "system"

\* The calls addMessageToStore(message) makes in a handler of session sid.
addMessageToStore(sid, id, type, content, flag) ==
  (IF sid \in listeners[sid] THEN <<>> ELSE <<Call("createConversation", sid, NoId, "", "unset")>>)
  \o <<[Call("addMessage", sid, id, content, flag) EXCEPT !.role = Role(type)]>>

updateMessage(sid, id, content, flag) == <<Call("updateMessage", sid, id, content, flag)>>

setSessionLoading(sid, b) ==
  <<Call("setSessionLoading", sid, NoId, "", IF b THEN "true" ELSE "false")>>

\* Room for one more entry in the transcript of sid (the model's bound).
CanAppend(sid) == Len(store.messages[sid]) < MaxEntries

\* A step of the hook that issued the calls cs while handling event e.
Issue(e, cs) ==
  /\ lastEvent' = e
  /\ dispatched' = TRUE
  /\ calls' = cs
  /\ store' = StoreApplyAll(store, cs)
  /\ UNCHANGED authVars

(* -------------------------------- Init --------------------------------- *)

Init ==
  /\ agentStreams = EmptyMap
  /\ reasoningStreams = EmptyMap
  /\ execStreams = EmptyMap
  /\ agentFlush = EmptyMap
  /\ reasoningFlush = EmptyMap
  /\ rafQueue = <<>>
  /\ shownDiffs = {}
  /\ currentStreamingMessageId = Null
  /\ store = [messages |-> [s \in Sessions |-> <<>>],
              loading |-> [s \in Sessions |-> FALSE],
              conversations |-> {}]
  /\ now = 0
  /\ sessionId = SessionA
  /\ listeners = MapSet(EmptyMap, SessionA, {})
  /\ execChunks = EmptyMap
  /\ turn = "Idle"
  /\ lastEvent = Event("init", NoSession, "", "")
  /\ dispatched = FALSE
  /\ calls = <<>>
  /\ auth = [type |-> "none", email |-> "undefined", plan |-> "undefined",
             valid |-> "undefined", isLoading |-> FALSE, error |-> <<>>]
  /\ inflight = <<>>
  /\ pollIntervals = {}
  /\ pollTimeouts = {}
  /\ refreshInterval = 0
  /\ timers = {}
  /\ authType = "unmounted"

(* ------------------------------- clock --------------------------------- *)

\* Time passes between two events.
Tick ==
  /\ now < MaxClock
  /\ now' = now + 1
  /\ lastEvent' = Event("tick", NoSession, "", "")
  /\ dispatched' = FALSE
  /\ calls' = <<>>
  /\ UNCHANGED <<engineVars, hookVars, store, turn, authVars>>

(* --------------------------- flush scheduler --------------------------- *)

RafCallback(which, id, sid) == [which |-> which, id |-> id, sid |-> sid]

\* A variant of scheduleFlush without the early return on flags.has(id).
scheduleFlushAlways(which, flags, sid, id) ==
  [flags |-> MapSet(flags, id, sid),
   queue |-> Append(rafQueue, RafCallback(which, id, sid))]

\* A variant of scheduleFlush that schedules every callback for the agent
\* channel, whatever channel requested it.
scheduleFlushOneChannel(which, flags, sid, id) ==
  IF Has(flags, id) THEN [flags |-> flags, queue |-> rafQueue]
  ELSE [flags |-> MapSet(flags, id, sid),
        queue |-> Append(rafQueue, RafCallback("agent", id, sid))]

\* A variant of scheduleFlush that records the handle under the channel name
\* instead of the stream id.
scheduleFlushKeyedByChannel(which, flags, sid, id) ==
  IF Has(flags, id) THEN [flags |-> flags, queue |-> rafQueue]
  ELSE [flags |-> MapSet(flags, which, sid),
        queue |-> Append(rafQueue, RafCallback(which, id, sid))]

\* scheduleFlush(which, id) called from a handler of session sid, flags being
\* the flush map of the channel: the new flags and the new callback queue.
scheduleFlush(which, flags, sid, id) ==
  IF Has(flags, id) THEN [flags |-> flags, queue |-> rafQueue]
  ELSE [flags |-> MapSet(flags, id, sid),
        queue |-> Append(rafQueue, RafCallback(which, id, sid))]

\* The oldest callback fires; it was scheduled by scheduleFlush('agent', id).
AgentFlushTick(id) ==
  /\ rafQueue # <<>>
  /\ Head(rafQueue).which = "agent"
  /\ Head(rafQueue).id = id
  /\ rafQueue' = Tail(rafQueue)
  /\ agentFlush' = MapDelete(agentFlush, id)
  /\ Issue(Event("raf_agent", Head(rafQueue).sid, id, ""),
           IF Has(agentStreams, id)
           THEN updateMessage(Head(rafQueue).sid, agentStreams[id].messageId,
                              agentStreams[id].buffer, "unset")
           ELSE <<>>)
  /\ UNCHANGED <<agentStreams, reasoningStreams, execStreams, reasoningFlush,
                 shownDiffs, currentStreamingMessageId, execChunks, now, hookVars, turn>>

\* A variant of the reasoning callback without flags.delete(id).
ReasoningFlushTickKeepsPending(id) ==
  /\ rafQueue # <<>>
  /\ Head(rafQueue).which = "reasoning"
  /\ Head(rafQueue).id = id
  /\ rafQueue' = Tail(rafQueue)
  /\ Issue(Event("raf_reasoning", Head(rafQueue).sid, id, ""),
           IF Has(reasoningStreams, id)
           THEN updateMessage(Head(rafQueue).sid, reasoningStreams[id].messageId,
                              reasoningStreams[id].buffer, "unset")
           ELSE <<>>)
  /\ UNCHANGED <<agentStreams, reasoningStreams, execStreams, agentFlush, reasoningFlush,
                 shownDiffs, currentStreamingMessageId, execChunks, now, hookVars, turn>>

\* The oldest callback fires; it was scheduled by scheduleFlush('reasoning', id).
ReasoningFlushTick(id) ==
  /\ rafQueue # <<>>
  /\ Head(rafQueue).which = "reasoning"
  /\ Head(rafQueue).id = id
  /\ rafQueue' = Tail(rafQueue)
  /\ reasoningFlush' = MapDelete(reasoningFlush, id)
  /\ Issue(Event("raf_reasoning", Head(rafQueue).sid, id, ""),
           IF Has(reasoningStreams, id)
           THEN updateMessage(Head(rafQueue).sid, reasoningStreams[id].messageId,
                              reasoningStreams[id].buffer, "unset")
           ELSE <<>>)
  /\ UNCHANGED <<agentStreams, reasoningStreams, execStreams, agentFlush,
                 shownDiffs, currentStreamingMessageId, execChunks, now, hookVars, turn>>

(* ------------------------- agent channel events ------------------------ *)

\* A variant of the agent_message case without the comparison with the held buffer.
AgentMessageAlwaysEmits(sid, id, text) ==
  LET e == Event("agent_message", sid, id, text)
      messageId == MessageId(sid, "agent", "", now)
      emit == text # ""
  IN /\ emit => CanAppend(sid)
     /\ agentStreams' = IF emit THEN MapSet(agentStreams, id, StreamEntry(messageId, text))
                        ELSE agentStreams
     /\ Issue(e, IF emit THEN addMessageToStore(sid, messageId, "agent", text, "unset") ELSE <<>>)
     /\ UNCHANGED <<reasoningStreams, execStreams, agentFlush, reasoningFlush, rafQueue,
                    shownDiffs, currentStreamingMessageId, execChunks, now, hookVars, turn>>

\* case 'agent_message'
AgentMessage(sid, id, text) ==
  LET e == Event("agent_message", sid, id, text)
      messageId == MessageId(sid, "agent", "", now)
      emit == text # "" /\ (~Has(agentStreams, id) \/ agentStreams[id].buffer # text)
  IN /\ emit => CanAppend(sid)
     /\ agentStreams' = IF emit THEN MapSet(agentStreams, id, StreamEntry(messageId, text))
                        ELSE agentStreams
     /\ Issue(e, IF emit THEN addMessageToStore(sid, messageId, "agent", text, "unset") ELSE <<>>)
     /\ UNCHANGED <<reasoningStreams, execStreams, agentFlush, reasoningFlush, rafQueue,
                    shownDiffs, currentStreamingMessageId, execChunks, now, hookVars, turn>>

\* A variant of the delta case without the guard on an empty delta: it
\* requests a flush for every delta.
AgentMessageDeltaFlushesEmpty(sid, id, delta) ==
  LET e == Event("agent_message_delta", sid, id, delta)
      fresh == ~Has(agentStreams, id)
      messageId == MessageId(sid, "agent", "", now)
      st == IF fresh THEN StreamEntry(messageId, "") ELSE agentStreams[id]
  IN /\ fresh => CanAppend(sid)
     /\ Len(st.buffer) + Len(delta) <= MaxBuf
     /\ agentStreams' = MapSet(agentStreams, id, [st EXCEPT !.buffer = @ \o delta])
     /\ agentFlush' = scheduleFlush("agent", agentFlush, sid, id).flags
     /\ rafQueue' = scheduleFlush("agent", agentFlush, sid, id).queue
     /\ Issue(e, IF fresh THEN addMessageToStore(sid, messageId, "agent", "", "true") ELSE <<>>)
     /\ UNCHANGED <<reasoningStreams, execStreams, reasoningFlush,
                    shownDiffs, currentStreamingMessageId, execChunks, now, hookVars, turn>>

\* A variant of the delta case that takes a new message id on every delta.
AgentMessageDeltaRenewsId(sid, id, delta) ==
  LET e == Event("agent_message_delta", sid, id, delta)
      fresh == ~Has(agentStreams, id)
      messageId == MessageId(sid, "agent", "", now)
      st == IF fresh THEN StreamEntry(messageId, "")
            ELSE StreamEntry(messageId, agentStreams[id].buffer)
  IN /\ fresh => CanAppend(sid)
     /\ Len(st.buffer) + Len(delta) <= MaxBuf
     /\ agentStreams' = MapSet(agentStreams, id,
                               IF delta # "" THEN [st EXCEPT !.buffer = @ \o delta] ELSE st)
     /\ agentFlush' = IF delta # "" THEN scheduleFlush("agent", agentFlush, sid, id).flags
                      ELSE agentFlush
     /\ rafQueue' = IF delta # "" THEN scheduleFlush("agent", agentFlush, sid, id).queue
                    ELSE rafQueue
     /\ Issue(e, IF fresh THEN addMessageToStore(sid, messageId, "agent", "", "true") ELSE <<>>)
     /\ UNCHANGED <<reasoningStreams, execStreams, reasoningFlush,
                    shownDiffs, currentStreamingMessageId, execChunks, now, hookVars, turn>>

\* case 'agent_message_delta'
AgentMessageDelta(sid, id, delta) ==
  LET e == Event("agent_message_delta", sid, id, delta)
      fresh == ~Has(agentStreams, id)
      messageId == MessageId(sid, "agent", "", now)
      st == IF fresh THEN StreamEntry(messageId, "") ELSE agentStreams[id]
  IN /\ fresh => CanAppend(sid)
     /\ Len(st.buffer) + Len(delta) <= MaxBuf
     /\ agentStreams' = MapSet(agentStreams, id,
                               IF delta # "" THEN [st EXCEPT !.buffer = @ \o delta] ELSE st)
     /\ agentFlush' = IF delta # "" THEN scheduleFlush("agent", agentFlush, sid, id).flags
                      ELSE agentFlush
     /\ rafQueue' = IF delta # "" THEN scheduleFlush("agent", agentFlush, sid, id).queue
                    ELSE rafQueue
     /\ Issue(e, IF fresh THEN addMessageToStore(sid, messageId, "agent", "", "true") ELSE <<>>)
     /\ UNCHANGED <<reasoningStreams, execStreams, reasoningFlush,
                    shownDiffs, currentStreamingMessageId, execChunks, now, hookVars, turn>>

(* ----------------------- reasoning channel events ---------------------- *)

\* case 'agent_reasoning_delta' / 'agent_reasoning_raw_content_delta'
AgentReasoningDelta(type, sid, id, delta) ==
  LET e == Event(type, sid, id, delta)
      fresh == ~Has(reasoningStreams, id)
      messageId == MessageId(sid, "reasoning", "", now)
      st == IF fresh THEN StreamEntry(messageId, "") ELSE reasoningStreams[id]
  IN /\ fresh => CanAppend(sid)
     /\ Len(st.buffer) + Len(delta) <= MaxBuf
     /\ reasoningStreams' = MapSet(reasoningStreams, id,
                               IF delta # "" THEN [st EXCEPT !.buffer = @ \o delta] ELSE st)
     /\ reasoningFlush' = IF delta # ""
                          THEN scheduleFlush("reasoning", reasoningFlush, sid, id).flags
                          ELSE reasoningFlush
     /\ rafQueue' = IF delta # "" THEN scheduleFlush("reasoning", reasoningFlush, sid, id).queue
                    ELSE rafQueue
     /\ Issue(e, IF fresh THEN addMessageToStore(sid, messageId, "agent", "", "true") ELSE <<>>)
     /\ UNCHANGED <<agentStreams, execStreams, agentFlush, shownDiffs,
                    currentStreamingMessageId, execChunks, now, hookVars, turn>>

\* A variant of the reasoning final case that writes the final text as it
\* comes, empty or not.
AgentReasoningWritesEmpty(type, sid, id, text) ==
  LET e == Event(type, sid, id, text)
      messageId == MessageId(sid, "reasoning", "", now)
  IN /\ (~Has(reasoningStreams, id) /\ text # "") => CanAppend(sid)
     /\ reasoningStreams' = MapDelete(reasoningStreams, id)
     /\ Issue(e,
          (IF Has(reasoningStreams, id)
           THEN updateMessage(sid, reasoningStreams[id].messageId, text, "false")
           ELSE IF text # "" THEN addMessageToStore(sid, messageId, "agent", text, "unset")
           ELSE <<>>)
          \o setSessionLoading(sid, FALSE))
     /\ UNCHANGED <<agentStreams, execStreams, agentFlush, reasoningFlush, rafQueue, shownDiffs,
                    currentStreamingMessageId, execChunks, now, hookVars, turn>>

\* A variant of the reasoning final case that emits an entry for an empty text too.
AgentReasoningEmitsEmpty(type, sid, id, text) ==
  LET e == Event(type, sid, id, text)
      messageId == MessageId(sid, "reasoning", "", now)
  IN /\ ~Has(reasoningStreams, id) => CanAppend(sid)
     /\ reasoningStreams' = MapDelete(reasoningStreams, id)
     /\ Issue(e,
          (IF Has(reasoningStreams, id)
           THEN updateMessage(sid, reasoningStreams[id].messageId,
                              IF text # "" THEN text ELSE reasoningStreams[id].buffer,
                              "false")
           ELSE addMessageToStore(sid, messageId, "agent", text, "unset"))
          \o setSessionLoading(sid, FALSE))
     /\ UNCHANGED <<agentStreams, execStreams, agentFlush, reasoningFlush, rafQueue, shownDiffs,
                    currentStreamingMessageId, execChunks, now, hookVars, turn>>

\* case 'agent_reasoning' / 'agent_reasoning_raw_content'
AgentReasoning(type, sid, id, text) ==
  LET e == Event(type, sid, id, text)
      messageId == MessageId(sid, "reasoning", "", now)
  IN /\ (~Has(reasoningStreams, id) /\ text # "") => CanAppend(sid)
     /\ reasoningStreams' = MapDelete(reasoningStreams, id)
     /\ Issue(e,
          (IF Has(reasoningStreams, id)
           THEN updateMessage(sid, reasoningStreams[id].messageId,
                              IF text # "" THEN text ELSE reasoningStreams[id].buffer,
                              "false")
           ELSE IF text # "" THEN addMessageToStore(sid, messageId, "agent", text, "unset")
           ELSE <<>>)
          \o setSessionLoading(sid, FALSE))
     /\ UNCHANGED <<agentStreams, execStreams, agentFlush, reasoningFlush, rafQueue, shownDiffs,
                    currentStreamingMessageId, execChunks, now, hookVars, turn>>

\* The paragraph separator of a section break.
SectionBreak == "\n\n"

\* case 'agent_reasoning_section_break'
AgentReasoningSectionBreak(sid, id) ==
  LET e == Event("agent_reasoning_section_break", sid, id, "")
      st == reasoningStreams[id]
  IN /\ Has(reasoningStreams, id) => Len(st.buffer) <= MaxBuf
     /\ reasoningStreams' = IF Has(reasoningStreams, id)
                            THEN MapSet(reasoningStreams, id,
                                        [st EXCEPT !.buffer = @ \o SectionBreak])
                            ELSE reasoningStreams
     /\ Issue(e, IF Has(reasoningStreams, id)
                 THEN updateMessage(sid, st.messageId, st.buffer \o SectionBreak, "unset")
                 ELSE <<>>)
     /\ UNCHANGED <<agentStreams, execStreams, agentFlush, reasoningFlush, rafQueue, shownDiffs,
                    currentStreamingMessageId, execChunks, now, hookVars, turn>>

(* ---------------------------- turn lifecycle --------------------------- *)

\* streamController.current.clearAll() and .finalize(true) act on the
\* StreamController object only: it is constructed without arguments and holds
\* no reference to the maps of the hook, so neither call changes them.

\* case 'turn_started'
TurnStarted(sid) ==
  /\ currentStreamingMessageId' = Null
  /\ shownDiffs' = {}
  /\ turn' = "Active"
  /\ Issue(Event("turn_started", sid, "", ""), setSessionLoading(sid, TRUE))
  /\ UNCHANGED <<agentStreams, reasoningStreams, execStreams, agentFlush,
                 reasoningFlush, rafQueue, execChunks, now, hookVars>>

\* A variant of the task_started case that flips the loading flag instead of
\* setting it.
TaskStartedFlipsLoading(sid) ==
  /\ currentStreamingMessageId' = Null
  /\ turn' = "Active"
  /\ Issue(Event("task_started", sid, "", ""), setSessionLoading(sid, ~store.loading[sid]))
  /\ UNCHANGED <<agentStreams, reasoningStreams, execStreams, agentFlush,
                 reasoningFlush, rafQueue, shownDiffs, execChunks, now, hookVars>>

\* case 'task_started'
TaskStarted(sid) ==
  /\ currentStreamingMessageId' = Null
  /\ turn' = "Active"
  /\ Issue(Event("task_started", sid, "", ""), setSessionLoading(sid, TRUE))
  /\ UNCHANGED <<agentStreams, reasoningStreams, execStreams, agentFlush,
                 reasoningFlush, rafQueue, shownDiffs, execChunks, now, hookVars>>

\* case 'task_complete'
TaskComplete(sid) ==
  /\ currentStreamingMessageId' = Null
  /\ turn' = "Idle"
  /\ Issue(Event("task_complete", sid, "", ""), setSessionLoading(sid, FALSE))
  /\ UNCHANGED <<agentStreams, reasoningStreams, execStreams, agentFlush,
                 reasoningFlush, rafQueue, shownDiffs, execChunks, now, hookVars>>

\* case 'turn_complete'
TurnComplete(sid) ==
  /\ currentStreamingMessageId' = Null
  /\ shownDiffs' = {}
  /\ turn' = "Idle"
  /\ Issue(Event("turn_complete", sid, "", ""), setSessionLoading(sid, FALSE))
  /\ UNCHANGED <<agentStreams, reasoningStreams, execStreams, agentFlush,
                 reasoningFlush, rafQueue, execChunks, now, hookVars>>

\* A variant of the abort case that keeps the diff set, as task_complete does.
TurnAbortedKeepsDiffs(sid) ==
  /\ CanAppend(sid)
  /\ currentStreamingMessageId' = Null
  /\ turn' = "Idle"
  /\ Issue(Event("turn_aborted", sid, "", ""),
           addMessageToStore(sid, MessageId(sid, "turn-abort", "", now), "system", "Turn aborted", "unset")
           \o setSessionLoading(sid, FALSE))
  /\ UNCHANGED <<agentStreams, reasoningStreams, execStreams, agentFlush,
                 reasoningFlush, rafQueue, shownDiffs, execChunks, now, hookVars>>

\* case 'turn_aborted'
TurnAborted(sid) ==
  /\ CanAppend(sid)
  /\ currentStreamingMessageId' = Null
  /\ shownDiffs' = {}
  /\ turn' = "Idle"
  /\ Issue(Event("turn_aborted", sid, "", ""),
           addMessageToStore(sid, MessageId(sid, "turn-abort", "", now), "system", "Turn aborted", "unset")
           \o setSessionLoading(sid, FALSE))
  /\ UNCHANGED <<agentStreams, reasoningStreams, execStreams, agentFlush,
                 reasoningFlush, rafQueue, execChunks, now, hookVars>>

\* case 'shutdown_complete'
ShutdownComplete(sid) ==
  /\ currentStreamingMessageId' = Null
  /\ Issue(Event("shutdown_complete", sid, "", ""), <<>>)
  /\ UNCHANGED <<agentStreams, reasoningStreams, execStreams, agentFlush,
                 reasoningFlush, rafQueue, shownDiffs, execChunks, now, hookVars, turn>>

(* ------------------------------ diff dedup ----------------------------- *)

\* The three backquotes that open and close a fenced block.
DiffFence == "<fence>"

\* case 'turn_diff'
TurnDiff(sid, raw) ==
  LET show == raw # "" /\ raw \notin shownDiffs
  IN /\ show => CanAppend(sid)
     /\ shownDiffs' = IF show THEN shownDiffs \cup {raw} ELSE shownDiffs
     /\ Issue(Event("turn_diff", sid, "", raw),
              IF show
              THEN addMessageToStore(sid, MessageId(sid, "diff", "", now), "system",
                                     DiffFence \o "diff\n" \o raw \o "\n" \o DiffFence, "unset")
              ELSE <<>>)
     /\ UNCHANGED <<agentStreams, reasoningStreams, execStreams, agentFlush,
                    reasoningFlush, rafQueue, currentStreamingMessageId, execChunks, now,
                    hookVars, turn>>

(* --------------------------- session correlator ------------------------ *)

\* String.prototype.replace(Prefix, empty string): the first occurrence of the marker,
\* wherever it stands, is removed.
RECURSIVE Replace(_)
Replace(s) ==
  IF s = <<>> THEN <<>>
  ELSE IF Head(s) = Prefix THEN Tail(s)
  ELSE <<Head(s)>> \o Replace(Tail(s))

\* getEventSessionId(event): msg.session_id of a session_configured event,
\* null for every other type (null and the empty string are both the empty id here: the
\* listen callback only tests the value for truthiness).
getEventSessionId(e) ==
  IF e.type = "session_configured" THEN e.arg ELSE <<>>

\* A variant of the listen callback's test without the check that the event carries an id.
IgnoredWithoutId(e) ==
  LET eventSessionId == getEventSessionId(e)
      ourSessionId == Replace(e.sid)
  IN eventSessionId # ourSessionId

\* The listen callback's test: the event is for a different session.
Ignored(e) ==
  LET eventSessionId == getEventSessionId(e)
      ourSessionId == Replace(e.sid)
  IN eventSessionId # <<>> /\ eventSessionId # ourSessionId

\* The listen callback of session e.sid receives e: it returns early, or it
\* calls handleCodexEvent (the action handle).
Listen(e, handle) ==
  IF Ignored(e)
  THEN /\ lastEvent' = e
       /\ dispatched' = FALSE
       /\ calls' = <<>>
       /\ UNCHANGED <<engineVars, store, now, hookVars, turn, authVars>>
  ELSE handle

\* case 'session_configured'
SessionConfigured(sid, session_id) ==
  /\ Issue(Event("session_configured", sid, "", session_id), <<>>)
  /\ UNCHANGED <<engineVars, now, hookVars, turn>>

\* A variant of the logged cases that ends the loading indicator on an event
\* it does not know.
LoggedEndsLoading(type, sid) ==
  /\ Issue(Event(type, sid, "", ""),
           IF type \in {"token_count", "token_count_update", "background_event"}
           THEN <<>> ELSE setSessionLoading(sid, FALSE))
  /\ UNCHANGED <<engineVars, now, hookVars, turn>>

\* case 'token_count' / 'token_count_update' / 'background_event', and the
\* default case: logged only.
Logged(type, sid) ==
  /\ Issue(Event(type, sid, "", ""), <<>>)
  /\ UNCHANGED <<engineVars, now, hookVars, turn>>

(* ---------------------------- approval surface ------------------------- *)

\* A variant of the approval cases without the case 'apply_patch_approval_request'.
ApprovalRequestWithoutApplyPatch(type, sid, id) ==
  /\ Issue(Event(type, sid, id, ""),
           IF type = "apply_patch_approval_request" THEN <<>>
           ELSE <<Call("onApprovalRequest", NoSession, <<id>>,
                       IF type = "exec_approval_request" THEN "exec" ELSE "patch", "unset")>>)
  /\ UNCHANGED <<engineVars, now, hookVars, turn>>

\* case 'exec_approval_request' / 'patch_approval_request' /
\* 'apply_patch_approval_request': the ApprovalRequest's id and type.
ApprovalRequest(type, sid, id) ==
  /\ Issue(Event(type, sid, id, ""),
           <<Call("onApprovalRequest", NoSession, <<id>>,
                  IF type = "exec_approval_request" THEN "exec" ELSE "patch", "unset")>>)
  /\ UNCHANGED <<engineVars, now, hookVars, turn>>

(* ------------------------------ plan, patch ---------------------------- *)

RECURSIVE Join(_, _)
\* Array.prototype.join(sep)
Join(xs, sep) ==
  IF xs = <<>> THEN ""
  ELSE IF Len(xs) = 1 THEN xs[1]
  ELSE xs[1] \o sep \o Join(Tail(xs), sep)

\* case 'plan_update'
PlanUpdate(sid, plan) ==
  LET lines == [i \in DOMAIN plan |-> "- [" \o plan[i].status \o "] " \o plan[i].step]
  IN /\ CanAppend(sid)
     /\ Issue(Event("plan_update", sid, "", plan),
              addMessageToStore(sid, MessageId(sid, "plan", "", now), "system",
                                Join(<<"Plan update:">> \o lines, "\n"), "unset"))
     /\ UNCHANGED <<engineVars, now, hookVars, turn>>

\* case 'patch_apply_begin'
PatchApplyBegin(sid) ==
  /\ CanAppend(sid)
  /\ Issue(Event("patch_apply_begin", sid, "", ""),
           addMessageToStore(sid, MessageId(sid, "patch-begin", "", now), "system",
                             "Applying patch...", "unset")   \* the source writes an ellipsis character
           \o setSessionLoading(sid, TRUE))
  /\ UNCHANGED <<engineVars, now, hookVars, turn>>

\* case 'patch_apply_end'
PatchApplyEnd(sid, success) ==
  /\ CanAppend(sid)
  /\ Issue(Event("patch_apply_end", sid, "", success),
           addMessageToStore(sid, MessageId(sid, "patch-end", "", now), "system",
                             "Patch apply " \o (IF success THEN "ok" ELSE "failed"), "unset")
           \o setSessionLoading(sid, FALSE))
  /\ UNCHANGED <<engineVars, now, hookVars, turn>>

\* A variant of the error case that shows an error text once only.
ErrorEventDeduplicated(sid, message, rand) ==
  LET content == "Error: " \o message
      shown == \E i \in DOMAIN store.messages[sid] : store.messages[sid][i].content = content
  IN /\ CanAppend(sid)
     /\ Issue(Event("error", sid, "", message),
              (IF shown THEN <<>>
               ELSE addMessageToStore(sid, MessageId(sid, "error", rand, now), "system",
                                      content, "unset"))
              \o setSessionLoading(sid, FALSE))
     /\ UNCHANGED <<engineVars, now, hookVars, turn>>

\* case 'error': rand is Math.random().toString(36).substring(2, 11)
ErrorEvent(sid, message, rand) ==
  /\ CanAppend(sid)
  /\ Issue(Event("error", sid, "", message),
           addMessageToStore(sid, MessageId(sid, "error", rand, now), "system",
                             "Error: " \o message, "unset")
           \o setSessionLoading(sid, FALSE))
  /\ UNCHANGED <<engineVars, now, hookVars, turn>>

(* ------------------------------ exec channel --------------------------- *)

\* One character of TextDecoder's output for a byte below 0x80 (the bytes the
\* model's chunks use).
AsciiChar(b) ==
  CASE b = 10 -> "\n"
    [] b = 102 -> "f"
    [] b = 49 -> "1"
    [] OTHER -> "?"

RECURSIVE Utf8Decode(_)
\* new TextDecoder().decode(bytes): UTF-8, not fatal, each chunk decoded on
\* its own. A lead byte 0xC2..0xDF with a continuation byte is one two-byte
\* character (written <U+hex of the pair>); a lead byte without continuation
\* and a lone continuation byte each give U+FFFD.
Utf8Decode(bytes) ==
  IF bytes = <<>> THEN ""
  ELSE LET b == Head(bytes)
       IN IF b < 128 THEN AsciiChar(b) \o Utf8Decode(Tail(bytes))
          ELSE IF /\ b >= 194 /\ b <= 223 /\ Len(bytes) >= 2
                  /\ bytes[2] >= 128 /\ bytes[2] <= 191
               THEN (IF b = 195 /\ bytes[2] = 169 THEN "<U+00E9>" ELSE "<U+0080..07FF>")
                    \o Utf8Decode(Tail(Tail(bytes)))
               ELSE "<U+FFFD>" \o Utf8Decode(Tail(bytes))

\* The header of an exec message: headerLines.join('\n') + '\n'
ExecHeader(command, cwd) ==
  Join((IF cwd # "" THEN <<"cwd: " \o cwd>> ELSE <<>>) \o <<"$ " \o Join(command, " ")>>, "\n")
  \o "\n"

\* case 'exec_command_begin'
ExecCommandBegin(sid, callId, command, cwd) ==
  LET messageId == MessageId(sid, "exec", callId, now)
      content == ExecHeader(command, cwd)
  IN /\ CanAppend(sid)
     /\ execStreams' = MapSet(execStreams, callId, StreamEntry(messageId, content))
     /\ execChunks' = MapSet(execChunks, callId, 0)
     /\ Issue(Event("exec_command_begin", sid, callId, [command |-> command, cwd |-> cwd]),
              addMessageToStore(sid, messageId, "system", content, "true")
              \o setSessionLoading(sid, TRUE))
     /\ UNCHANGED <<agentStreams, reasoningStreams, agentFlush, reasoningFlush, rafQueue,
                    shownDiffs, currentStreamingMessageId, now, hookVars, turn>>

\* A variant of the output delta case that shows the last chunk only.
ExecCommandOutputDeltaOverwrites(sid, callId, chunk) ==
  LET st == execStreams[callId]
      next == Utf8Decode(chunk)
  IN /\ Has(execStreams, callId) => execChunks[callId] < MaxChunks
     /\ execStreams' = IF Has(execStreams, callId)
                       THEN MapSet(execStreams, callId, [st EXCEPT !.buffer = next])
                       ELSE execStreams
     /\ execChunks' = IF Has(execStreams, callId)
                      THEN MapSet(execChunks, callId, execChunks[callId] + 1)
                      ELSE execChunks
     /\ Issue(Event("exec_command_output_delta", sid, callId, chunk),
              IF Has(execStreams, callId)
              THEN updateMessage(sid, st.messageId, next, "unset")
              ELSE <<>>)
     /\ UNCHANGED <<agentStreams, reasoningStreams, agentFlush, reasoningFlush, rafQueue,
                    shownDiffs, currentStreamingMessageId, now, hookVars, turn>>

\* case 'exec_command_output_delta'. TextDecoder.decode does not throw on
\* malformed input, so the catch branch is not taken.
ExecCommandOutputDelta(sid, callId, chunk) ==
  LET st == execStreams[callId]
      next == st.buffer \o Utf8Decode(chunk)
  IN /\ Has(execStreams, callId) => execChunks[callId] < MaxChunks
     /\ execStreams' = IF Has(execStreams, callId)
                       THEN MapSet(execStreams, callId, [st EXCEPT !.buffer = next])
                       ELSE execStreams
     /\ execChunks' = IF Has(execStreams, callId)
                      THEN MapSet(execChunks, callId, execChunks[callId] + 1)
                      ELSE execChunks
     /\ Issue(Event("exec_command_output_delta", sid, callId, chunk),
              IF Has(execStreams, callId)
              THEN updateMessage(sid, st.messageId, next, "unset")
              ELSE <<>>)
     /\ UNCHANGED <<agentStreams, reasoningStreams, agentFlush, reasoningFlush, rafQueue,
                    shownDiffs, currentStreamingMessageId, now, hookVars, turn>>

\* case 'exec_command_end'
ExecCommandEnd(sid, callId, exit_code) ==
  LET st == execStreams[callId]
      next == st.buffer \o "\nexit " \o ToString(exit_code)
  IN /\ execStreams' = MapDelete(execStreams, callId)
     /\ execChunks' = MapDelete(execChunks, callId)
     /\ Issue(Event("exec_command_end", sid, callId, exit_code),
              (IF Has(execStreams, callId)
               THEN updateMessage(sid, st.messageId, next, "false")
               ELSE <<>>)
              \o setSessionLoading(sid, FALSE))
     /\ UNCHANGED <<agentStreams, reasoningStreams, agentFlush, reasoningFlush, rafQueue,
                    shownDiffs, currentStreamingMessageId, now, hookVars, turn>>

(* ---------------------------- effect lifecycle ------------------------- *)

\* The cleanup of the useEffect: the hook unmounts or sessionId changes. The
\* unlisten function is only called once the listen promise has resolved.
EffectCleanup ==
  /\ sessionId # NoSession
  /\ sessionId' = NoSession
  /\ currentStreamingMessageId' = Null
  /\ lastEvent' = Event("effect_cleanup", sessionId, "", "")
  /\ dispatched' = FALSE
  /\ calls' = <<>>
  /\ UNCHANGED <<agentStreams, reasoningStreams, execStreams, agentFlush, reasoningFlush, rafQueue,
                 shownDiffs, execChunks, store, now, listeners, turn, authVars>>

\* eventUnlisten.then(fn => fn()) takes effect for the listener of a cleaned-up effect.
Unlisten(sid) ==
  /\ Has(listeners, sid)
  /\ sid # sessionId
  /\ listeners' = MapDelete(listeners, sid)
  /\ lastEvent' = Event("unlisten", sid, "", "")
  /\ dispatched' = FALSE
  /\ calls' = <<>>
  /\ UNCHANGED <<engineVars, store, now, sessionId, turn, authVars>>

\* The effect runs for a new sessionId: listen() registers a callback that
\* closes over this render's sessionId and conversations.
EffectRun(sid) ==
  /\ sessionId = NoSession
  /\ ~Has(listeners, sid)
  /\ sessionId' = sid
  /\ listeners' = MapSet(listeners, sid, store.conversations)
  /\ lastEvent' = Event("effect_run", sid, "", "")
  /\ dispatched' = FALSE
  /\ calls' = <<>>
  /\ UNCHANGED <<engineVars, store, now, turn, authVars>>

(* --------------------------- specifications ---------------------------- *)

\* The feed delivers an agent-channel event to the listener of session sid.
AgentMessageEvent(sid, ids, texts) ==
  \E id \in ids, text \in texts :
    Listen(Event("agent_message", sid, id, text), AgentMessage(sid, id, text))

AgentDeltaEvent(sid, ids, deltas) ==
  \E id \in ids, delta \in deltas :
    Listen(Event("agent_message_delta", sid, id, delta), AgentMessageDelta(sid, id, delta))

ReasoningDeltaEvent(sid, types, ids, deltas) ==
  \E type \in types, id \in ids, delta \in deltas :
    Listen(Event(type, sid, id, delta), AgentReasoningDelta(type, sid, id, delta))

ReasoningFinalEvent(sid, types, ids, texts) ==
  \E type \in types, id \in ids, text \in texts :
    Listen(Event(type, sid, id, text), AgentReasoning(type, sid, id, text))

SectionBreakEvent(sid, ids) ==
  \E id \in ids :
    Listen(Event("agent_reasoning_section_break", sid, id, ""),
           AgentReasoningSectionBreak(sid, id))

ExecBeginEvent(sid, callIds, commands, cwds) ==
  \E callId \in callIds, command \in commands, cwd \in cwds :
    Listen(Event("exec_command_begin", sid, callId, [command |-> command, cwd |-> cwd]),
           ExecCommandBegin(sid, callId, command, cwd))

ExecOutputEvent(sid, callIds, chunks) ==
  \E callId \in callIds, chunk \in chunks :
    Listen(Event("exec_command_output_delta", sid, callId, chunk),
           ExecCommandOutputDelta(sid, callId, chunk))

ExecEndEvent(sid, callIds, codes) ==
  \E callId \in callIds, exit_code \in codes :
    Listen(Event("exec_command_end", sid, callId, exit_code),
           ExecCommandEnd(sid, callId, exit_code))

TurnStartEvent(sid) ==
  \/ Listen(Event("turn_started", sid, "", ""), TurnStarted(sid))
  \/ Listen(Event("task_started", sid, "", ""), TaskStarted(sid))

TurnEndEvent(sid) ==
  \/ Listen(Event("task_complete", sid, "", ""), TaskComplete(sid))
  \/ Listen(Event("turn_complete", sid, "", ""), TurnComplete(sid))
  \/ Listen(Event("turn_aborted", sid, "", ""), TurnAborted(sid))

DiffEvent(sid, diffs) ==
  \E raw \in diffs : Listen(Event("turn_diff", sid, "", raw), TurnDiff(sid, raw))

SessionConfiguredEvent(sid) ==
  \E session_id \in EventSessionIds :
    Listen(Event("session_configured", sid, "", session_id),
           SessionConfigured(sid, session_id))

LoggedEvent(sid) ==
  \E type \in LoggedTypes : Listen(Event(type, sid, "", ""), Logged(type, sid))

ApprovalEvent(sid) ==
  \E type \in ApprovalTypes, id \in ApprovalIds :
    Listen(Event(type, sid, id, ""), ApprovalRequest(type, sid, id))

OtherEvent(sid) ==
  \/ LoggedEvent(sid)
  \/ ApprovalEvent(sid)
  \/ \E plan \in Plans : Listen(Event("plan_update", sid, "", plan), PlanUpdate(sid, plan))
  \/ Listen(Event("patch_apply_begin", sid, "", ""), PatchApplyBegin(sid))
  \/ \E success \in BOOLEAN :
       Listen(Event("patch_apply_end", sid, "", success), PatchApplyEnd(sid, success))
  \/ \E message \in ErrorMessages, rand \in Rands :
       Listen(Event("error", sid, "", message), ErrorEvent(sid, message, rand))
  \/ Listen(Event("shutdown_complete", sid, "", ""), ShutdownComplete(sid))

FlushTick(ids) ==
  \/ \E id \in ids : AgentFlushTick(id)
  \/ \E id \in ids : ReasoningFlushTick(id)

Lifecycle ==
  \/ EffectCleanup
  \/ \E sid \in Sessions : Unlisten(sid)
  \/ \E sid \in Sessions : EffectRun(sid)

\* The whole hook: every event kind over every input domain.
Next ==
  \/ Tick
  \/ FlushTick(StreamIds)
  \/ Lifecycle
  \/ \E sid \in DOMAIN listeners :
       \/ AgentMessageEvent(sid, StreamIds, Texts)
       \/ AgentDeltaEvent(sid, StreamIds, Deltas)
       \/ ReasoningDeltaEvent(sid, ReasoningDeltaTypes, StreamIds, Deltas)
       \/ ReasoningFinalEvent(sid, ReasoningFinalTypes, StreamIds, Texts)
       \/ SectionBreakEvent(sid, StreamIds)
       \/ ExecBeginEvent(sid, CallIds, Commands, Cwds)
       \/ ExecOutputEvent(sid, CallIds, Chunks)
       \/ ExecEndEvent(sid, CallIds, ExitCodes)
       \/ TurnStartEvent(sid)
       \/ TurnEndEvent(sid)
       \/ DiffEvent(sid, Diffs)
       \/ SessionConfiguredEvent(sid)
       \/ OtherEvent(sid)

Spec == Init /\ [][Next]_vars

\* The agent channel: full messages, deltas and their flush ticks.
NextAgent ==
  \/ Tick
  \/ \E id \in StreamIds : AgentFlushTick(id)
  \/ \E sid \in DOMAIN listeners :
       \/ AgentMessageEvent(sid, StreamIds, Texts)
       \/ AgentDeltaEvent(sid, StreamIds, {"a"})

SpecAgent == Init /\ [][NextAgent]_vars

\* Deltas of one stream id on the agent and on the reasoning channel, and
\* their flush ticks.
NextDelta ==
  \/ Tick
  \/ FlushTick({"s1"})
  \/ \E sid \in DOMAIN listeners :
       \/ AgentDeltaEvent(sid, {"s1"}, Deltas)
       \/ ReasoningDeltaEvent(sid, {"agent_reasoning_delta"}, {"s1"}, Deltas)

SpecDelta == Init /\ [][NextDelta]_vars

\* The reasoning channel.
NextReasoning ==
  \/ Tick
  \/ \E id \in StreamIds : ReasoningFlushTick(id)
  \/ \E sid \in DOMAIN listeners :
       \/ ReasoningDeltaEvent(sid, ReasoningDeltaTypes, StreamIds, {"a"})
       \/ ReasoningFinalEvent(sid, ReasoningFinalTypes, StreamIds, {"", "a", "b"})

SpecReasoning == Init /\ [][NextReasoning]_vars

\* The exec channel.
NextExec ==
  \/ Tick
  \/ \E sid \in DOMAIN listeners :
       \/ ExecBeginEvent(sid, {"c1"}, {<<"ls", "-la">>}, Cwds)
       \/ ExecOutputEvent(sid, {"c1"}, {<<102, 10>>, <<195>>})
       \/ ExecEndEvent(sid, {"c1"}, {0})

SpecExec == Init /\ [][NextExec]_vars

\* Turns: a feed that keeps to the protocol (stream, exec and diff events only
\* inside a turn), with one stream id per channel.
NextTurn ==
  \/ Tick
  \/ FlushTick({"s1"})
  \/ \E sid \in DOMAIN listeners :
       \/ TurnStartEvent(sid)
       \/ TurnEndEvent(sid)
       \/ /\ turn = "Active"
          /\ \/ AgentDeltaEvent(sid, {"s1"}, {"a"})
             \/ ReasoningDeltaEvent(sid, {"agent_reasoning_delta"}, {"s1"}, {"a"})
             \/ ExecBeginEvent(sid, {"c1"}, {<<"ls">>}, {""})
             \/ DiffEvent(sid, {"D"})

SpecTurn == Init /\ [][NextTurn]_vars

\* Teardown: the hook unmounts while deltas arrive and flush callbacks are
\* pending. The feed delivers nothing to the listener of a cleaned-up effect
\* here (the case most favourable to the cleanup).
NextTeardown ==
  \/ Tick
  \/ EffectCleanup
  \/ \E sid \in Sessions : Unlisten(sid)
  \/ \E id \in StreamIds : AgentFlushTick(id)
  \/ \E sid \in DOMAIN listeners :
       sid = sessionId /\ AgentDeltaEvent(sid, StreamIds, {"a"})

SpecTeardown == Init /\ [][NextTeardown]_vars

\* The session correlator: the hook is mounted for one session after another
\* while session_configured events and events of the other kinds arrive.
NextCorrelator ==
  \/ Lifecycle
  \/ \E sid \in DOMAIN listeners :
       \/ SessionConfiguredEvent(sid)
       \/ LoggedEvent(sid)
       \/ ApprovalEvent(sid)
       \/ TurnStartEvent(sid)
       \/ Listen(Event("shutdown_complete", sid, "", ""), ShutdownComplete(sid))

SpecCorrelator == Init /\ [][NextCorrelator]_vars

\* Errors: error events arrive at any point of a turn, repeated or not.
NextError ==
  \/ Tick
  \/ \E id \in {"s1"} : AgentFlushTick(id)
  \/ \E sid \in DOMAIN listeners :
       \/ TurnStartEvent(sid)
       \/ AgentDeltaEvent(sid, {"s1"}, {"a"})
       \/ \E message \in ErrorMessages, rand \in Rands :
            Listen(Event("error", sid, "", message), ErrorEvent(sid, message, rand))

SpecError == Init /\ [][NextError]_vars

\* Approvals: approval requests arrive among the events of a turn.
NextApproval ==
  \/ FlushTick({"s1"})
  \/ \E sid \in DOMAIN listeners :
       \/ ApprovalEvent(sid)
       \/ LoggedEvent(sid)
       \/ TurnStartEvent(sid)
       \/ TurnEndEvent(sid)
       \/ AgentDeltaEvent(sid, {"s1"}, {"a"})
       \/ ReasoningDeltaEvent(sid, {"agent_reasoning_delta"}, {"s1"}, {"a"})
       \/ ExecBeginEvent(sid, {"c1"}, {<<"ls">>}, {""})
       \/ DiffEvent(sid, {"D"})

SpecApproval == Init /\ [][NextApproval]_vars

\* Flushes: deltas of one stream id on both channels, reasoning finals that
\* destroy the StreamEntry, and the flush ticks.
NextFlush ==
  \/ Tick
  \/ FlushTick({"s1"})
  \/ \E sid \in DOMAIN listeners :
       \/ AgentDeltaEvent(sid, {"s1"}, {"a"})
       \/ ReasoningDeltaEvent(sid, {"agent_reasoning_delta"}, {"s1"}, {"a"})
       \/ ReasoningFinalEvent(sid, {"agent_reasoning"}, {"s1"}, {"", "b"})

SpecFlush == Init /\ [][NextFlush]_vars

\* Streams: one stream id per channel, with the events that create, replace
\* or destroy a StreamEntry and the turn events.
NextStreams ==
  \/ Tick
  \/ \E sid \in DOMAIN listeners :
       \/ AgentMessageEvent(sid, {"s1"}, {"a", "ab"})
       \/ AgentDeltaEvent(sid, {"s1"}, {"a"})
       \/ ReasoningDeltaEvent(sid, {"agent_reasoning_delta"}, {"s1"}, {"a"})
       \/ ReasoningFinalEvent(sid, {"agent_reasoning"}, {"s1"}, {"b"})
       \/ ExecBeginEvent(sid, {"c1"}, {<<"ls">>}, {""})
       \/ ExecEndEvent(sid, {"c1"}, {0})
       \/ TurnStartEvent(sid)
       \/ TurnEndEvent(sid)

SpecStreams == Init /\ [][NextStreams]_vars

\* Replace: full agent messages and deltas of one stream id, and its flush ticks.
NextReplace ==
  \/ Tick
  \/ AgentFlushTick("s1")
  \/ \E sid \in DOMAIN listeners :
       \/ AgentMessageEvent(sid, {"s1"}, Texts)
       \/ AgentDeltaEvent(sid, {"s1"}, {"a"})

SpecReplace == Init /\ [][NextReplace]_vars

(* ------------------------------- claims -------------------------------- *)

TurnStartTypes == {"turn_started", "task_started"}

TurnEndTypes == {"turn_complete", "task_complete", "turn_aborted"}

\* The calls of a step that write to the transcript.
Writes(cs) == {i \in DOMAIN cs : cs[i].op \in {"addMessage", "updateMessage"}}

Appends(cs) == {i \in DOMAIN cs : cs[i].op = "addMessage"}

Updates(cs) == {i \in DOMAIN cs : cs[i].op = "updateMessage"}

\* C1: Idempotent resend on the agent channel. An agent_message whose non-empty
\* text equals the buffer already held for its id appends no transcript entry,
\* issues no update and leaves the stream entry as it is; in particular the
\* second of two identical agent_message events in a row changes nothing.
C1_IdempotentResend ==
  [][LET e == lastEvent'
     IN /\ (/\ e.type = "agent_message" /\ dispatched' /\ e.arg # ""
            /\ Has(agentStreams, e.id) /\ agentStreams[e.id].buffer = e.arg)
           => (/\ calls' = <<>> /\ store' = store
               /\ agentStreams' = agentStreams /\ agentFlush' = agentFlush)
        /\ (/\ e.type = "agent_message" /\ dispatched' /\ e.arg # ""
            /\ lastEvent = e /\ dispatched)
           => (/\ calls' = <<>> /\ store' = store /\ agentStreams' = agentStreams)
    ]_vars

\* C1 witness: agent_message(id, "ab") was sent twice from a state without a
\* StreamEntry: one entry with content "ab", and the resend issued nothing.
C1_Witness ==
  /\ lastEvent.type = "agent_message" /\ lastEvent.arg = "ab" /\ dispatched
  /\ calls = <<>>
  /\ Len(store.messages[SessionA]) = 1
  /\ store.messages[SessionA][1].content = "ab"
  /\ agentStreams[lastEvent.id].buffer = "ab"

\* The callbacks the queue holds for one (channel, stream id).
Pending(queue, which, id) ==
  {i \in DOMAIN queue : queue[i].which = which /\ queue[i].id = id}

\* A non-empty delta e was appended: st and stP are the channel's stream map
\* before and after, flP its flush map after.
DeltaBuffered(e, which, st, stP, flP) ==
  /\ Updates(calls') = {}
  /\ stP[e.id].buffer = (IF Has(st, e.id) THEN st[e.id].buffer ELSE "") \o e.arg
  /\ Has(flP, e.id)
  /\ Cardinality(Pending(rafQueue', which, e.id)) = 1

\* The tick of e's key fired: one update with the buffer, nothing left pending.
FlushedOnce(e, which, st, flP) ==
  /\ calls' = <<Call("updateMessage", e.sid, st[e.id].messageId, st[e.id].buffer, "unset")>>
  /\ ~Has(flP, e.id)
  /\ Pending(rafQueue', which, e.id) = {}

\* C2: Delta coalescing. Each non-empty delta of a stream extends its buffer in
\* arrival order, issues no update and leaves exactly one flush pending for
\* its key, however many deltas arrive before the tick; the tick issues
\* exactly one update, with the buffer (the concatenation of the deltas), and
\* clears the pending flush, so that later deltas get one further update at
\* the following tick.
C2_DeltaCoalescing ==
  [][LET e == lastEvent'
     IN /\ (e.type = "agent_message_delta" /\ dispatched' /\ e.arg # "")
           => DeltaBuffered(e, "agent", agentStreams, agentStreams', agentFlush')
        /\ (e.type \in ReasoningDeltaTypes /\ dispatched' /\ e.arg # "")
           => DeltaBuffered(e, "reasoning", reasoningStreams, reasoningStreams',
                            reasoningFlush')
        /\ e.type = "raf_agent" => FlushedOnce(e, "agent", agentStreams, agentFlush')
        /\ e.type = "raf_reasoning"
           => FlushedOnce(e, "reasoning", reasoningStreams, reasoningFlush')
    ]_vars

\* C2 witness: the tick wrote "ab", the deltas "a" and "b" in arrival order,
\* in one update, and no flush is left pending.
C2_Witness ==
  /\ lastEvent.type = "raf_agent"
  /\ calls = <<Call("updateMessage", SessionA, agentStreams["s1"].messageId, "ab", "unset")>>
  /\ store.messages[SessionA][1].content = "ab"
  /\ rafQueue = <<>>

\* C3: Turn isolation. When a turn starts after the previous one has ended, no
\* StreamEntry and no pending flush of the previous turn is left: an event for
\* a stream id of the previous turn finds no entry (it starts a new one from
\* an empty buffer), and no callback scheduled before can write.
C3_TurnIsolation ==
  [][(lastEvent'.type \in TurnStartTypes /\ dispatched' /\ turn = "Idle")
     => (/\ agentStreams' = EmptyMap /\ reasoningStreams' = EmptyMap
         /\ agentFlush' = EmptyMap /\ reasoningFlush' = EmptyMap
         /\ rafQueue' = <<>>)
    ]_vars

\* C4: Idle invariant. While the turn state is Idle the stream maps of the
\* three channels are empty, no flush is pending and the diff set is empty.
C4_IdleInvariant ==
  turn = "Idle"
  => (/\ agentStreams = EmptyMap /\ reasoningStreams = EmptyMap
      /\ execStreams = EmptyMap
      /\ agentFlush = EmptyMap /\ reasoningFlush = EmptyMap
      /\ shownDiffs = {})

\* C5: Cancellation on teardown. A flush callback that fires after the cleanup
\* of the effect that scheduled it issues no call on the transcript store.
C5_CancellationOnTeardown ==
  (lastEvent.type \in {"raf_agent", "raf_reasoning"} /\ lastEvent.sid # sessionId)
  => Writes(calls) = {}

\* The transcript entries of session sid with entry id mid.
EntriesWithId(msgs, mid) == {i \in DOMAIN msgs : msgs[i].id = mid}

C7_DiffDedup ==
  [][LET e == lastEvent'
     IN (e.type = "turn_diff" /\ dispatched' /\ e.arg # "")
        => /\ (lastEvent = e /\ dispatched) => Appends(calls') = {}
           /\ (lastEvent.type \in TurnStartTypes \cup TurnEndTypes /\ dispatched)
              => Cardinality(Appends(calls')) = 1
    ]_vars

\* C8: Finalize without delta. A reasoning final event for a stream id without
\* a StreamEntry appends, when its text is non-empty, exactly one transcript
\* entry with that text as content and no streaming mark, creates no
\* StreamEntry and schedules no flush; when its text is empty it appends
\* nothing.
C8_FinalizeWithoutDelta ==
  [][LET e == lastEvent'
         msgs == store.messages[e.sid]
         msgsP == store'.messages[e.sid]
     IN (e.type \in ReasoningFinalTypes /\ dispatched' /\ ~Has(reasoningStreams, e.id))
        => /\ reasoningStreams' = reasoningStreams
           /\ reasoningFlush' = reasoningFlush
           /\ rafQueue' = rafQueue
           /\ Updates(calls') = {}
           /\ IF e.arg # ""
              THEN /\ Cardinality(Appends(calls')) = 1
                   /\ Len(msgsP) = Len(msgs) + 1
                   /\ msgsP[Len(msgsP)].content = e.arg
                   /\ msgsP[Len(msgsP)].isStreaming # "true"
                   /\ \A i \in DOMAIN msgs : msgsP[i] = msgs[i]
              ELSE /\ Appends(calls') = {}
                   /\ msgsP = msgs
    ]_vars

\* C8 witness: a final with text "b" arrived for an id that never had a delta:
\* the transcript holds one entry, content "b", not streaming, and the id has
\* no StreamEntry and no pending flush.
C8_Witness ==
  /\ lastEvent.type \in ReasoningFinalTypes /\ lastEvent.arg = "b" /\ dispatched
  /\ Cardinality(Appends(calls)) = 1
  /\ reasoningStreams = EmptyMap /\ reasoningFlush = EmptyMap /\ rafQueue = <<>>
  /\ Len(store.messages[SessionA]) = 1
  /\ store.messages[SessionA][1].content = "b"
  /\ store.messages[SessionA][1].isStreaming # "true"

\* The steps that are not the delivery of a feed event to a listener.
InternalTypes ==
  {"init", "tick", "raf_agent", "raf_reasoning", "effect_cleanup", "unlisten", "effect_run"}

\* A session id without its leading marker.
WithoutLeadingPrefix(s) == IF s # <<>> /\ Head(s) = Prefix THEN Tail(s) ELSE s

\* C9 as stated: an event is dropped exactly when it is a session_configured
\* event whose session_id differs from the hook's sessionId with its leading
\* marker removed.
C9_AsStated ==
  [][LET e == lastEvent'
     IN e.type \notin InternalTypes
        => (~dispatched' <=> (/\ e.type = "session_configured"
                              /\ e.arg # WithoutLeadingPrefix(e.sid)))
    ]_vars

\* C9: Session correlation. An event is dropped exactly when it is a
\* session_configured event with a non-empty session_id that differs from the
\* hook's sessionId with the first occurrence of the marker removed; every
\* event of another kind is dispatched.
C9_SessionCorrelation ==
  [][LET e == lastEvent'
     IN e.type \notin InternalTypes
        => (~dispatched' <=> (/\ e.type = "session_configured"
                              /\ e.arg # <<>>
                              /\ e.arg # Replace(e.sid)))
    ]_vars

\* C9 witness: a session_configured event of another session was dropped by
\* the hook of session A.
C9_Witness ==
  /\ lastEvent.type = "session_configured" /\ lastEvent.sid = SessionA
  /\ lastEvent.arg = <<"B">>
  /\ ~dispatched /\ calls = <<>>

\* The transcript entries of session sid that carry the id of stream entry st.
EntriesOf(sid, st) ==
  {i \in DOMAIN store.messages[sid] : store.messages[sid][i].id = st.messageId}

\* Every entry an agent or reasoning stream targets is committed: its content
\* is the stream's buffer and it is not marked as streaming.
StreamsCommitted(sid) ==
  \A m \in {agentStreams, reasoningStreams} : \A k \in DOMAIN m :
    \A i \in EntriesOf(sid, m[k]) :
      /\ store.messages[sid][i].content = m[k].buffer
      /\ store.messages[sid][i].isStreaming # "true"

\* C10: A turn never ends mid-stream. Right after a turn_complete or
\* task_complete event every entry created by an agent or reasoning delta has
\* its streaming flag false and its content equal to the stream's buffer.
C10_TurnNeverEndsMidStream ==
  (lastEvent.type \in {"turn_complete", "task_complete"} /\ dispatched)
  => StreamsCommitted(lastEvent.sid)

\* C11: Every turn-start event (turn_started and task_started alike), in any
\* state, leaves the loading indicator of the session true and the diff set
\* empty.
C11_TurnStartClears ==
  (lastEvent.type \in TurnStartTypes /\ dispatched)
  => (store.loading[lastEvent.sid] /\ shownDiffs = {})

\* C12: Every turn-end event (turn_complete, task_complete, turn_aborted)
\* leaves the diff set empty.
C12_TurnEndClearsDiffs ==
  (lastEvent.type \in TurnEndTypes /\ dispatched) => shownDiffs = {}

\* The engine's ephemeral state: the stream maps of the three channels, the
\* pending flushes, the diff set and the loading flag of session sid.
Ephemeral(sid) ==
  [agent |-> agentStreams, reasoning |-> reasoningStreams, exec |-> execStreams,
   agentFlush |-> agentFlush, reasoningFlush |-> reasoningFlush, raf |-> rafQueue,
   diffs |-> shownDiffs, loading |-> store.loading[sid]]

\* What the end of a turn makes of ephemeral state eph.
AfterTurnEnd(eph) == [eph EXCEPT !.diffs = {}, !.loading = FALSE]

\* C13: Abort. A turn_aborted event appends exactly one system entry with
\* content "Turn aborted", and it takes the ephemeral state (stream maps,
\* pending flushes, diff set, loading flag) to the state a turn_complete event
\* takes it to from the same prior state; turn_complete appends nothing.
C13_AbortLikeComplete ==
  [][LET e == lastEvent'
         msgs == store.messages[e.sid]
         msgsP == store'.messages[e.sid]
     IN /\ \A sid \in Sessions :
             (e.type \in {"turn_aborted", "turn_complete"} /\ dispatched' /\ e.sid = sid)
             => Ephemeral(sid)' = AfterTurnEnd(Ephemeral(sid))
        /\ (e.type = "turn_complete" /\ dispatched') => msgsP = msgs
        /\ (e.type = "turn_aborted" /\ dispatched')
           => /\ Cardinality(Appends(calls')) = 1
              /\ Len(msgsP) = Len(msgs) + 1
              /\ \A i \in DOMAIN msgs : msgsP[i] = msgs[i]
              /\ msgsP[Len(msgsP)].content = "Turn aborted"
              /\ msgsP[Len(msgsP)].role = "system"
    ]_vars

\* C13 witness: a turn that had shown a diff was
\* aborted: the entry "Turn aborted" was appended and the diff set is empty.
C13_Witness ==
  /\ lastEvent.type = "turn_aborted" /\ dispatched
  /\ Len(store.messages[SessionA]) = 2
  /\ store.messages[SessionA][1].id[2] = "diff"
  /\ store.messages[SessionA][2].content = "Turn aborted"
  /\ store.messages[SessionA][2].role = "system"
  /\ shownDiffs = {}
  /\ ~store.loading[SessionA]

\* C14: Error events. Every error event, in any state, appends exactly one
\* system entry whose content is "Error: " followed by the message, and leaves
\* the loading indicator of the session false; a repeated error is shown again.
C14_ErrorSurfaced ==
  [][LET e == lastEvent'
         msgs == store.messages[e.sid]
         msgsP == store'.messages[e.sid]
     IN e.type = "error"
        => /\ dispatched'
           /\ Cardinality(Appends(calls')) = 1
           /\ Updates(calls') = {}
           /\ Len(msgsP) = Len(msgs) + 1
           /\ \A i \in DOMAIN msgs : msgsP[i] = msgs[i]
           /\ msgsP[Len(msgsP)].content = "Error: " \o e.arg
           /\ msgsP[Len(msgsP)].role = "system"
           /\ ~store'.loading[e.sid]
    ]_vars

\* C14 witness: the same error arrived twice in a turn: two entries
\* "Error: boom", and the loading indicator the turn start had set is false.
C14_Witness ==
  /\ lastEvent.type = "error" /\ dispatched
  /\ Len(store.messages[SessionA]) = 2
  /\ store.messages[SessionA][1].content = "Error: boom"
  /\ store.messages[SessionA][2].content = "Error: boom"
  /\ store.messages[SessionA][2].role = "system"
  /\ turn = "Active"
  /\ ~store.loading[SessionA]

\* The calls of a step that invoke the approval callback.
Approvals(cs) == {i \in DOMAIN cs : cs[i].op = "onApprovalRequest"}

\* C15: Approval surface. Each approval event invokes onApprovalRequest exactly
\* once while it is handled, with the event's id and kind (exec for
\* exec_approval_request, patch for the two patch requests), changes no stream
\* map, pending flush, diff set or loading flag and issues no transcript
\* intent; no step of another kind invokes the callback.
C15_ApprovalSurface ==
  [][LET e == lastEvent'
     IN IF e.type \in ApprovalTypes
        THEN /\ dispatched'
             /\ Len(calls') = 1
             /\ calls'[1].op = "onApprovalRequest"
             /\ calls'[1].id = <<e.id>>
             /\ calls'[1].content = (IF e.type = "exec_approval_request" THEN "exec" ELSE "patch")
             /\ agentStreams' = agentStreams /\ reasoningStreams' = reasoningStreams
             /\ execStreams' = execStreams
             /\ agentFlush' = agentFlush /\ reasoningFlush' = reasoningFlush
             /\ rafQueue' = rafQueue
             /\ shownDiffs' = shownDiffs
             /\ store' = store
        ELSE Approvals(calls') = {}
    ]_vars

\* C15 witness: an apply_patch_approval_request arrived in the middle of a
\* turn, with a stream open and a flush pending: the callback got its id and
\* the kind patch, and the stream and the flush are still there.
C15_Witness ==
  /\ lastEvent.type = "apply_patch_approval_request" /\ dispatched
  /\ calls = <<Call("onApprovalRequest", NoSession, <<"p1">>, "patch", "unset")>>
  /\ Has(agentStreams, "s1") /\ Has(agentFlush, "s1") /\ rafQueue # <<>>
  /\ store.loading[SessionA]

\* C16: An event with an unrecognised tag is a no-op: it issues no call (no
\* append, update, setLoading, conversation creation or approval callback) and
\* leaves every stream map, pending flush and the diff set unchanged.
C16_UnknownTagNoOp ==
  [][lastEvent'.type = "unknown_tag"
     => /\ calls' = <<>>
        /\ store' = store
        /\ agentStreams' = agentStreams /\ reasoningStreams' = reasoningStreams
        /\ execStreams' = execStreams
        /\ agentFlush' = agentFlush /\ reasoningFlush' = reasoningFlush
        /\ rafQueue' = rafQueue
        /\ shownDiffs' = shownDiffs
    ]_vars

\* C16 witness: an event with an unknown tag was handled in the middle of a
\* turn, with a stream open, a flush pending and a diff shown: nothing was
\* issued and the loading indicator is still on.
C16_Witness ==
  /\ lastEvent.type = "unknown_tag" /\ dispatched
  /\ calls = <<>>
  /\ Has(agentStreams, "s1") /\ Has(agentFlush, "s1") /\ rafQueue # <<>>
  /\ shownDiffs = {"D"}
  /\ store.loading[SessionA]

\* C17: At most one flush is outstanding per (channel, stream id): the queue
\* of scheduled callbacks never holds two for one key, and a delta that
\* requests a flush while one is outstanding for its key schedules nothing.
C17_OneFlushPerKey ==
  [][LET e == lastEvent'
     IN /\ \A which \in {"agent", "reasoning"}, id \in StreamIds :
             Cardinality(Pending(rafQueue', which, id)) <= 1
        /\ (e.type = "agent_message_delta" /\ dispatched' /\ Has(agentFlush, e.id))
           => (rafQueue' = rafQueue /\ agentFlush' = agentFlush)
        /\ (e.type \in ReasoningDeltaTypes /\ dispatched' /\ Has(reasoningFlush, e.id))
           => (rafQueue' = rafQueue /\ reasoningFlush' = reasoningFlush)
    ]_vars

\* C17 witness: a second delta arrived on each channel before any tick: two
\* callbacks are queued, one per channel, and both buffers hold two deltas.
C17_Witness ==
  /\ lastEvent.type \in ReasoningDeltaTypes /\ dispatched
  /\ Len(rafQueue) = 2
  /\ Cardinality(Pending(rafQueue, "agent", "s1")) = 1
  /\ Cardinality(Pending(rafQueue, "reasoning", "s1")) = 1
  /\ Len(agentStreams["s1"].buffer) = 2
  /\ Len(reasoningStreams["s1"].buffer) = 2

\* The callback of key (which, e.id) fired as e: st is the channel's stream map
\* and fl its flush map when it fired, flP the flush map afterwards.
FiredAtFireTime(e, st, fl, flP) ==
  /\ flP = MapDelete(fl, e.id)
  /\ calls' = IF Has(st, e.id)
              THEN <<Call("updateMessage", e.sid, st[e.id].messageId, st[e.id].buffer, "unset")>>
              ELSE <<>>

\* C18: When a scheduled flush fires, it clears the pending flush of its key
\* and writes the buffer the key's StreamEntry holds at that moment to the
\* entry id the StreamEntry holds at that moment; when the key has no
\* StreamEntry any more, the tick issues no write.
C18_FlushAtFireTime ==
  [][LET e == lastEvent'
     IN /\ e.type = "raf_agent"
           => FiredAtFireTime(e, agentStreams, agentFlush, agentFlush')
        /\ e.type = "raf_reasoning"
           => FiredAtFireTime(e, reasoningStreams, reasoningFlush, reasoningFlush')
    ]_vars

\* C18 witness: a reasoning delta scheduled a flush, the final "b" destroyed
\* the StreamEntry before the tick, and the tick wrote nothing: the entry
\* still holds "b" and no flush is pending.
C18_Witness ==
  /\ lastEvent.type = "raf_reasoning"
  /\ calls = <<>>
  /\ ~Has(reasoningStreams, "s1") /\ ~Has(reasoningFlush, "s1")
  /\ Len(store.messages[SessionA]) = 1
  /\ store.messages[SessionA][1].content = "b"

\* The keys that stream map m holds before and after a step keep their entry id.
SameTargets(m, mP) ==
  \A k \in (DOMAIN m) \cap (DOMAIN mP) : mP[k].messageId = m[k].messageId

\* C19 as stated: the entry id of a StreamEntry never changes while the
\* StreamEntry lives, whatever the event, an agent_message with a different
\* text included.
C19_AsStated ==
  [][/\ SameTargets(agentStreams, agentStreams')
     /\ SameTargets(reasoningStreams, reasoningStreams')
     /\ SameTargets(execStreams, execStreams')
    ]_vars

\* The step registers a fresh StreamEntry for a key that has one: an
\* agent_message whose non-empty text differs from the buffer (which), or an
\* exec_command_begin for a call id that is live.
Reregisters(e, which) ==
  \/ /\ which = "agent" /\ e.type = "agent_message" /\ dispatched'
     /\ e.arg # "" /\ Has(agentStreams, e.id) /\ agentStreams[e.id].buffer # e.arg
  \/ /\ which = "exec" /\ e.type = "exec_command_begin" /\ dispatched'
     /\ Has(execStreams, e.id)

\* C19: The entry id of a StreamEntry is constant from its creation to its
\* destruction under every event but the two that register a fresh StreamEntry
\* for a live key: an agent_message whose non-empty text differs from the
\* buffer, and an exec_command_begin for a call id that is live. Those two
\* change the entry of their own key only.
C19_TargetConstant ==
  [][LET e == lastEvent'
     IN /\ SameTargets(reasoningStreams, reasoningStreams')
        /\ IF Reregisters(e, "agent")
           THEN SameTargets([k \in (DOMAIN agentStreams) \ {e.id} |-> agentStreams[k]],
                            agentStreams')
           ELSE SameTargets(agentStreams, agentStreams')
        /\ IF Reregisters(e, "exec")
           THEN SameTargets([k \in (DOMAIN execStreams) \ {e.id} |-> execStreams[k]],
                            execStreams')
           ELSE SameTargets(execStreams, execStreams')
    ]_vars

\* C19 witness: the stream s1 was created by a delta at time 0 and extended by
\* a delta at time 1: its entry id is still the one of time 0.
C19_Witness ==
  /\ lastEvent.type = "agent_message_delta" /\ dispatched
  /\ now = 1
  /\ Has(agentStreams, "s1")
  /\ agentStreams["s1"].messageId = MessageId(SessionA, "agent", "", 0)
  /\ agentStreams["s1"].buffer = "aa"

\* The live StreamEntry keys of the three channels, as (channel, id) pairs.
LiveKeys ==
  ({"agent"} \X DOMAIN agentStreams) \cup ({"reasoning"} \X DOMAIN reasoningStreams)
  \cup ({"exec"} \X DOMAIN execStreams)

\* The entry id the StreamEntry of key k targets.
TargetOf(k) ==
  IF k[1] = "agent" THEN agentStreams[k[2]].messageId
  ELSE IF k[1] = "reasoning" THEN reasoningStreams[k[2]].messageId
  ELSE execStreams[k[2]].messageId

\* C20: No two streams write to the same transcript entry: two distinct live
\* StreamEntry keys hold distinct entry ids, and every transcript entry has an
\* id of its own, also when streams are created without the clock advancing.
C20_DistinctTargets ==
  /\ \A k1, k2 \in LiveKeys : k1 # k2 => TargetOf(k1) # TargetOf(k2)
  /\ \A sid \in Sessions : \A i, j \in DOMAIN store.messages[sid] :
       i # j => store.messages[sid][i].id # store.messages[sid][j].id

\* The index of the entry appended last with id mid (0 when there is none).
LatestWithId(msgs, mid) ==
  LET is == EntriesWithId(msgs, mid)
  IN IF is = {} THEN 0 ELSE CHOOSE i \in is : \A j \in is : j <= i

\* C21: Replace, not append. An agent_message whose non-empty text differs
\* from the buffer of the StreamEntry of its id appends exactly one entry with
\* that text, registers the StreamEntry anew with the new entry's id and the
\* text as buffer, and leaves every earlier entry as it is; a later flush tick
\* of the stream changes no entry but the one the stream targets now.
C21_ReplaceNotAppend ==
  [][LET e == lastEvent'
         msgs == store.messages[e.sid]
         msgsP == store'.messages[e.sid]
     IN /\ (/\ e.type = "agent_message" /\ dispatched' /\ e.arg # ""
            /\ Has(agentStreams, e.id) /\ agentStreams[e.id].buffer # e.arg)
           => /\ Cardinality(Appends(calls')) = 1
              /\ Updates(calls') = {}
              /\ Len(msgsP) = Len(msgs) + 1
              /\ \A i \in DOMAIN msgs : msgsP[i] = msgs[i]
              /\ msgsP[Len(msgsP)].content = e.arg
              /\ agentStreams'[e.id] = StreamEntry(msgsP[Len(msgsP)].id, e.arg)
        /\ (e.type = "raf_agent" /\ Has(agentStreams, e.id))
           => \A i \in DOMAIN msgs :
                i # LatestWithId(msgs, agentStreams[e.id].messageId) => msgsP[i] = msgs[i]
    ]_vars

\* C22: Idempotent resend on the reasoning channel. The second of two reasoning
\* final events in a row with the same stream id and the same non-empty text
\* appends nothing and rewrites nothing: the transcript stays as the first
\* left it.
C22_ReasoningResend ==
  [][LET e == lastEvent'
     IN (/\ e.type \in ReasoningFinalTypes /\ dispatched' /\ e.arg # ""
         /\ lastEvent = e /\ dispatched)
        => (Writes(calls') = {} /\ store'.messages = store.messages)
    ]_vars

\* C23: Finalize of an existing stream. A reasoning final event for a stream id
\* that has a StreamEntry issues, in the handler itself and without scheduling
\* a flush, exactly one update of the stream's target entry, with the final
\* text (the buffer when the text is empty) as content and streaming false,
\* appends nothing and removes the StreamEntry; a delta that follows the final
\* appends a new entry.
C23_FinalizeExisting ==
  [][LET e == lastEvent'
     IN /\ (/\ e.type \in ReasoningDeltaTypes /\ dispatched'
            /\ lastEvent.type \in ReasoningFinalTypes /\ lastEvent.id = e.id)
           => (Cardinality(Appends(calls')) = 1 /\ Has(reasoningStreams', e.id))
        /\ (e.type \in ReasoningFinalTypes /\ dispatched' /\ Has(reasoningStreams, e.id))
        => LET st == reasoningStreams[e.id]
               content == IF e.arg # "" THEN e.arg ELSE st.buffer
               msgsP == store'.messages[e.sid]
           IN /\ Appends(calls') = {}
              /\ Cardinality(Updates(calls')) = 1
              /\ \A i \in Updates(calls') :
                   calls'[i] = Call("updateMessage", e.sid, st.messageId, content, "false")
              /\ \A i \in EntriesWithId(msgsP, st.messageId) :
                   msgsP[i].content = content /\ msgsP[i].isStreaming = "false"
              /\ ~Has(reasoningStreams', e.id)
              /\ rafQueue' = rafQueue /\ reasoningFlush' = reasoningFlush
    ]_vars

\* C23 witness: the stream s1 held the delta "a", not yet flushed, when a final
\* with empty text arrived: its entry shows "a", is not streaming, the
\* StreamEntry is gone, and the callback the delta scheduled is still queued.
C23_Witness ==
  /\ lastEvent.type \in ReasoningFinalTypes /\ lastEvent.arg = "" /\ dispatched
  /\ Cardinality(Updates(calls)) = 1
  /\ ~Has(reasoningStreams, "s1")
  /\ Len(store.messages[SessionA]) = 1
  /\ store.messages[SessionA][1].content = "a"
  /\ store.messages[SessionA][1].isStreaming = "false"
  /\ Pending(rafQueue, "reasoning", "s1") # {}

\* Section breaks: the reasoning streams with their deltas, section breaks and
\* flush ticks.
NextBreak ==
  \/ Tick
  \/ \E id \in StreamIds : ReasoningFlushTick(id)
  \/ \E sid \in DOMAIN listeners :
       \/ ReasoningDeltaEvent(sid, {"agent_reasoning_delta"}, StreamIds, {"a"})
       \/ SectionBreakEvent(sid, StreamIds)

SpecBreak == Init /\ [][NextBreak]_vars

\* C24: Section break. An agent_reasoning_section_break for an id without a
\* reasoning StreamEntry changes no state and issues no call; with a
\* StreamEntry it appends the paragraph separator to the buffer, issues no
\* update of its own and leaves a flush pending for the key.
C24_SectionBreak ==
  [][LET e == lastEvent'
     IN (e.type = "agent_reasoning_section_break" /\ dispatched')
        => IF ~Has(reasoningStreams, e.id)
           THEN calls' = <<>> /\ UNCHANGED <<engineVars, store>>
           ELSE /\ reasoningStreams'[e.id].buffer
                     = reasoningStreams[e.id].buffer \o SectionBreak
                /\ Updates(calls') = {}
                /\ Has(reasoningFlush', e.id)
                /\ Pending(rafQueue', "reasoning", e.id) # {}
    ]_vars

\* C25: First delta creates the stream in every channel. A delta event
\* (agent_message_delta, a reasoning delta, exec_command_output_delta) for an
\* id without a StreamEntry in its channel registers a StreamEntry and appends
\* exactly one transcript entry; an output delta without a preceding
\* exec_command_begin is shown too.
C25_FirstDeltaCreates ==
  [][LET e == lastEvent'
     IN /\ (e.type = "agent_message_delta" /\ dispatched' /\ ~Has(agentStreams, e.id))
           => (Has(agentStreams', e.id) /\ Cardinality(Appends(calls')) = 1)
        /\ (e.type \in ReasoningDeltaTypes /\ dispatched' /\ ~Has(reasoningStreams, e.id))
           => (Has(reasoningStreams', e.id) /\ Cardinality(Appends(calls')) = 1)
        /\ (e.type = "exec_command_output_delta" /\ dispatched' /\ ~Has(execStreams, e.id))
           => (Has(execStreams', e.id) /\ Cardinality(Appends(calls')) = 1)
    ]_vars

DeltaTypes == {"agent_message_delta", "exec_command_output_delta"} \cup ReasoningDeltaTypes

\* The entry ids the calls cs update.
UpdatedIds(cs) == {cs[i].id : i \in Updates(cs)}

\* C26: Bounded update rate. Delta processing issues at most one update of a
\* stream's target entry between two refresh ticks: two deltas handled one
\* right after the other, with no refresh tick between them, do not both
\* update the same entry.
C26_BoundedUpdateRate ==
  [][(/\ lastEvent.type \in DeltaTypes /\ dispatched
      /\ lastEvent'.type \in DeltaTypes /\ dispatched')
     => UpdatedIds(calls) \cap UpdatedIds(calls') = {}
    ]_vars

\* The StreamEntry st is shown: some transcript entry with its target id holds
\* its buffer.
Shown(st) ==
  \E sid \in DOMAIN store.messages :
    \E i \in EntriesWithId(store.messages[sid], st.messageId) :
      store.messages[sid][i].content = st.buffer

\* C27: No delta is left invisible. A live agent or reasoning StreamEntry whose
\* key has no flush pending has a target transcript entry whose content equals
\* its buffer.
C27_NoDeltaInvisible ==
  /\ \A id \in DOMAIN agentStreams : ~Has(agentFlush, id) => Shown(agentStreams[id])
  /\ \A id \in DOMAIN reasoningStreams : ~Has(reasoningFlush, id) => Shown(reasoningStreams[id])

\* Channels: the stream id s1 used on the agent, the reasoning and the exec
\* channel at once.
NextChannels ==
  \/ FlushTick({"s1"})
  \/ \E sid \in DOMAIN listeners :
       \/ AgentMessageEvent(sid, {"s1"}, {"ab"})
       \/ AgentDeltaEvent(sid, {"s1"}, {"a"})
       \/ ReasoningDeltaEvent(sid, {"agent_reasoning_delta"}, {"s1"}, {"a"})
       \/ ReasoningFinalEvent(sid, {"agent_reasoning"}, {"s1"}, {"b"})
       \/ SectionBreakEvent(sid, {"s1"})
       \/ ExecBeginEvent(sid, {"s1"}, {<<"ls">>}, {""})
       \/ ExecOutputEvent(sid, {"s1"}, {<<102, 10>>})
       \/ ExecEndEvent(sid, {"s1"}, {0})

SpecChannels == Init /\ [][NextChannels]_vars

AgentChannelTypes == {"agent_message", "agent_message_delta", "raf_agent"}

ReasoningChannelTypes ==
  ReasoningDeltaTypes \cup ReasoningFinalTypes
  \cup {"agent_reasoning_section_break", "raf_reasoning"}

ExecChannelTypes == {"exec_command_begin", "exec_command_output_delta", "exec_command_end"}

\* The scheduled callbacks of channel which, in order.
PendingOf(queue, which) == SelectSeq(queue, LAMBDA cb : cb.which = which)

\* C28: Channel namespaces are independent. A step of one channel (an event or
\* a flush tick) leaves the StreamEntry map and the pending flushes of the
\* other channels as they are, and the update a flush tick issues carries the
\* target and the buffer of its own channel's StreamEntry.
C28_ChannelsIndependent ==
  [][LET e == lastEvent'
     IN /\ (e.type \in AgentChannelTypes /\ dispatched')
           => /\ UNCHANGED <<reasoningStreams, reasoningFlush, execStreams>>
              /\ PendingOf(rafQueue', "reasoning") = PendingOf(rafQueue, "reasoning")
        /\ (e.type \in ReasoningChannelTypes /\ dispatched')
           => /\ UNCHANGED <<agentStreams, agentFlush, execStreams>>
              /\ PendingOf(rafQueue', "agent") = PendingOf(rafQueue, "agent")
        /\ (e.type \in ExecChannelTypes /\ dispatched')
           => UNCHANGED <<agentStreams, agentFlush, reasoningStreams, reasoningFlush, rafQueue>>
        /\ (e.type = "raf_agent" /\ Has(agentStreams, e.id))
           => \A i \in Updates(calls') :
                /\ calls'[i].id = agentStreams[e.id].messageId
                /\ calls'[i].content = agentStreams[e.id].buffer
        /\ (e.type = "raf_reasoning" /\ Has(reasoningStreams, e.id))
           => \A i \in Updates(calls') :
                /\ calls'[i].id = reasoningStreams[e.id].messageId
                /\ calls'[i].content = reasoningStreams[e.id].buffer
    ]_vars

\* C28 witness: the flush tick of (agent, s1) fired and wrote the agent buffer
\* while the reasoning channel holds a StreamEntry for s1 with another buffer
\* and a flush still pending.
C28_Witness ==
  /\ lastEvent.type = "raf_agent" /\ lastEvent.id = "s1" /\ dispatched
  /\ Cardinality(Updates(calls)) = 1
  /\ Has(agentStreams, "s1") /\ agentStreams["s1"].buffer = "aa"
  /\ Has(reasoningStreams, "s1") /\ reasoningStreams["s1"].buffer = "a"
  /\ Has(reasoningFlush, "s1")
  /\ calls[1].content = "aa"

\* C29: Re-entrant start is idempotent. A turn-start event handled right after
\* the same turn-start event, the turn being Active, leaves the stream maps,
\* the pending flushes, the diff set and the loading flag as its first
\* handling left them, and the turn Active.
C29_ReentrantStart ==
  [][\A sid \in Sessions :
       (/\ lastEvent.type \in TurnStartTypes /\ dispatched /\ turn = "Active"
        /\ lastEvent' = lastEvent /\ dispatched' /\ lastEvent.sid = sid)
       => (Ephemeral(sid)' = Ephemeral(sid) /\ turn' = "Active")
    ]_vars

\* C29 witness: task_started was handled in a turn that had already recorded a
\* diff and has a live stream with a flush pending; the loading flag is set
\* and the same event can be delivered again.
C29_Witness ==
  /\ lastEvent.type = "task_started" /\ dispatched /\ turn = "Active"
  /\ shownDiffs = {"D"}
  /\ Has(agentStreams, "s1") /\ Has(agentFlush, "s1")
  /\ store.loading[SessionA]
  /\ ENABLED TaskStarted(SessionA)

\* Empty payloads: deltas, agent messages and diffs whose text may be empty.
NextEmpty ==
  \/ Tick
  \/ FlushTick({"s1"})
  \/ \E sid \in DOMAIN listeners :
       \/ AgentMessageEvent(sid, {"s1"}, {"", "a"})
       \/ AgentDeltaEvent(sid, {"s1"}, {"", "a"})
       \/ ReasoningDeltaEvent(sid, ReasoningDeltaTypes, {"s1"}, {"", "a"})
       \/ DiffEvent(sid, {"", "D"})

SpecEmpty == Init /\ [][NextEmpty]_vars

\* The empty delta e arrived on a channel whose stream map was st and is stP
\* now: an existing StreamEntry is left as it is and nothing is issued; on a
\* new id a StreamEntry with an empty buffer is registered and one empty
\* streaming entry appended. No flush is scheduled either way.
EmptyDelta(e, st, stP) ==
  /\ rafQueue' = rafQueue /\ agentFlush' = agentFlush /\ reasoningFlush' = reasoningFlush
  /\ Updates(calls') = {}
  /\ IF Has(st, e.id)
     THEN stP = st /\ calls' = <<>> /\ store' = store
     ELSE /\ Has(stP, e.id) /\ stP[e.id].buffer = ""
          /\ Cardinality(Appends(calls')) = 1
          /\ \A i \in Appends(calls') :
               /\ calls'[i].id = stP[e.id].messageId
               /\ calls'[i].content = "" /\ calls'[i].flag = "true"

C31_LoadingWholeTurn ==
  turn = "Active" => store.loading[sessionId]

\* The ids of the transcript entries that a final event or an exec_command_end
\* has committed with streaming = false.
Finalised ==
  UNION {{store.messages[sid][i].id :
            i \in {j \in DOMAIN store.messages[sid] :
                     store.messages[sid][j].isStreaming = "false"}} :
         sid \in DOMAIN store.messages}

\* C32: A finalised entry is never written again. No step (event or flush
\* tick) issues an update for the id of an entry that was committed with
\* streaming = false before the step.
C32_FinalisedNotRewritten ==
  [][UpdatedIds(calls') \cap Finalised = {}]_vars

\* Sessions: the hook is mounted for one session after another while agent
\* deltas arrive for the session it is mounted for and flush callbacks fire.
NextSessions ==
  \/ Lifecycle
  \/ AgentFlushTick("s1")
  \/ \E sid \in DOMAIN listeners :
       sid = sessionId /\ AgentDeltaEvent(sid, {"s1"}, {"a"})

SpecSessions == Init /\ [][NextSessions]_vars

\* The session under which the entry id mid was made.
SessionOf(mid) == mid[1]

\* C33: Stream state does not leak across sessions. While the hook is
\* subscribed for a session, the stream maps hold only entries created under
\* that session, and no update for a session carries an entry id created
\* under another one.
C33_NoLeakAcrossSessions ==
  /\ sessionId # NoSession => \A k \in LiveKeys : SessionOf(TargetOf(k)) = sessionId
  /\ \A i \in Updates(calls) : SessionOf(calls[i].id) = calls[i].sid

\* C34: No dispatch after teardown. A feed event is handled only by the
\* subscription of the hook's current sessionId: the handler of a subscription
\* whose effect cleanup has run handles no event, and so no event is handled
\* by two subscriptions of the hook.
C34_NoDispatchAfterTeardown ==
  (dispatched /\ lastEvent.type \notin InternalTypes) => lastEvent.sid = sessionId

\* C35: Conversation creation is requested only when needed. A step calls
\* createConversation for a session only if the transcript store holds no
\* conversation with that session id when the step begins, so that after the
\* first append of a subscription no later append requests creation again.
C35_CreateOnlyWhenNeeded ==
  [][\A i \in DOMAIN calls' :
       calls'[i].op = "createConversation" => calls'[i].sid \notin store.conversations
    ]_vars

(* ------------------------------ auth store ----------------------------- *)

\* Most safeInvoke calls awaited at one time.
MaxInflight == 2

\* Most refresh intervals setInterval holds at one time.
MaxTimers == 2

\* Most OAuth flows whose timeout is pending at one time.
MaxFlows == 1

\* An optional field of AuthState that is not set.
Undefined == "undefined"

\* Texts (the status get_auth_status returns, error messages) are sequences
\* of tokens, so that split, startsWith and includes can be modelled; the
\* empty sequence is null / undefined.
NoText == <<>>

\* What get_auth_status can return, split at the colons.
Statuses ==
  {NoText, <<"api_key">>, <<"chatgpt", "me@x", "plus">>, <<"chatgpt", "invalid">>,
   <<"chatgpt", "tok">>, <<"other">>}

\* Messages a failing invoke can carry.
RawErrors == {<<"denied">>, <<"IPC", "closed">>}

Includes(text, token) == \E i \in DOMAIN text : text[i] = token

\* status.startsWith('chatgpt:')
StartsWithChatgpt(status) == Len(status) >= 2 /\ Head(status) = "chatgpt"

\* The token 'outside Tauri context' of the message safeInvoke throws.
OutsideTauri == "outside Tauri context"

\* safeInvoke's catch: the message of the Error it throws for an invoke that
\* failed with message raw, isTauriContext() being tauri.
safeInvoke(raw, tauri) ==
  IF Includes(raw, "IPC") \/ Includes(raw, "tauri") \/ ~tauri
  THEN <<"Tauri command called", OutsideTauri>>
  ELSE raw

\* The outcomes of an awaited safeInvoke: it resolves with a value or throws.
Resolved(value) == [ok |-> TRUE, value |-> value, tauri |-> TRUE, message |-> NoText]

Rejected(raw, tauri) ==
  [ok |-> FALSE, value |-> NoText, tauri |-> tauri, message |-> safeInvoke(raw, tauri)]

StatusOutcomes ==
  {Resolved(status) : status \in Statuses}
  \cup {Rejected(raw, tauri) : raw \in RawErrors, tauri \in BOOLEAN}

CommandOutcomes ==
  {Resolved(NoText)} \cup {Rejected(raw, tauri) : raw \in RawErrors, tauri \in BOOLEAN}

AuthState(type, email, plan, valid, isLoading, error) ==
  [type |-> type, email |-> email, plan |-> plan, valid |-> valid,
   isLoading |-> isLoading, error |-> error]

\* An awaited safeInvoke(cmd) of the async function by; flow is the OAuth flow
\* of a polling call, 0 otherwise.
Invoke(cmd, by, flow) == [cmd |-> cmd, by |-> by, flow |-> flow]

Remove(seq, i) == SubSeq(seq, 1, i - 1) \o SubSeq(seq, i + 1, Len(seq))

\* set((state) => ({ auth: { ...state.auth, isLoading: true, error: undefined } }))
LoadingStarted(a) == [a EXCEPT !.isLoading = TRUE, !.error = NoText]

\* set((state) => ({ auth: { ...state.auth, isLoading: false, error } }))
Failed(a, error) == [a EXCEPT !.isLoading = FALSE, !.error = error]

\* A step of the auth store, the token manager or the auth hook.
AuthStep(type, by, arg, cs) ==
  /\ lastEvent' = Event(type, NoSession, by, arg)
  /\ dispatched' = FALSE
  /\ calls' = cs
  /\ UNCHANGED <<engineVars, hookVars, store, now, turn>>

\* checkAuthStatus after get_auth_status has resolved with status.
checkAuthStatusResolved(a, status) ==
  IF status = NoText THEN AuthState("none", Undefined, Undefined, Undefined, FALSE, NoText)
  ELSE IF status = <<"api_key">>
  THEN AuthState("api_key", Undefined, Undefined, Undefined, FALSE, NoText)
  ELSE IF StartsWithChatgpt(status)
  THEN IF Len(status) = 3
       THEN AuthState("chatgpt", status[2], status[3], "true", FALSE, NoText)
       ELSE IF status[2] = "invalid"
       THEN AuthState("chatgpt", Undefined, Undefined, "false", FALSE, NoText)
       ELSE AuthState("chatgpt", Undefined, Undefined, "true", FALSE, NoText)
  ELSE a

\* The catch of checkAuthStatus.
checkAuthStatusRejected(a, message) ==
  IF Includes(message, OutsideTauri)
  THEN AuthState("none", Undefined, Undefined, Undefined, FALSE,
                 <<"Authentication not available in browser mode">>)
  ELSE Failed(a, <<"Failed to check authentication status: ">> \o message)

\* checkAuthStatus() up to its await.
checkAuthStatus ==
  /\ Len(inflight) < MaxInflight
  /\ auth' = LoadingStarted(auth)
  /\ inflight' = Append(inflight, Invoke("get_auth_status", "checkAuthStatus", 0))
  /\ AuthStep("call", "checkAuthStatus", NoText, <<>>)
  /\ UNCHANGED <<pollIntervals, pollTimeouts, refreshInterval, timers, authType>>

\* The await of checkAuthStatus settles: the function completes.
checkAuthStatusSettles(i, outcome) ==
  /\ inflight[i] = Invoke("get_auth_status", "checkAuthStatus", 0)
  /\ auth' = IF outcome.ok THEN checkAuthStatusResolved(auth, outcome.value)
             ELSE checkAuthStatusRejected(auth, outcome.message)
  /\ inflight' = Remove(inflight, i)
  /\ AuthStep("settle", "checkAuthStatus", outcome, <<>>)
  /\ UNCHANGED <<pollIntervals, pollTimeouts, refreshInterval, timers, authType>>

\* loginWithApiKey(apiKey) up to its first await.
loginWithApiKey ==
  /\ Len(inflight) < MaxInflight
  /\ auth' = LoadingStarted(auth)
  /\ inflight' = Append(inflight, Invoke("login_with_api_key_command", "loginWithApiKey", 0))
  /\ AuthStep("call", "loginWithApiKey", NoText, <<>>)
  /\ UNCHANGED <<pollIntervals, pollTimeouts, refreshInterval, timers, authType>>

\* login_with_api_key_command settles: on success loginWithApiKey goes on
\* into checkAuthStatus, on failure into its catch.
loginWithApiKeySettles(i, outcome) ==
  /\ inflight[i] = Invoke("login_with_api_key_command", "loginWithApiKey", 0)
  /\ auth' = IF outcome.ok THEN LoadingStarted(auth)
             ELSE Failed(auth, <<"Failed to save API key">>)
  /\ inflight' = IF outcome.ok
                 THEN Append(Remove(inflight, i), Invoke("get_auth_status", "checkAuthStatus", 0))
                 ELSE Remove(inflight, i)
  /\ AuthStep("settle", "loginWithApiKey", outcome, <<>>)
  /\ UNCHANGED <<pollIntervals, pollTimeouts, refreshInterval, timers, authType>>

\* logout() up to its await.
logout ==
  /\ Len(inflight) < MaxInflight
  /\ auth' = LoadingStarted(auth)
  /\ inflight' = Append(inflight, Invoke("logout_command", "logout", 0))
  /\ AuthStep("call", "logout", NoText, <<>>)
  /\ UNCHANGED <<pollIntervals, pollTimeouts, refreshInterval, timers, authType>>

logoutSettles(i, outcome) ==
  /\ inflight[i] = Invoke("logout_command", "logout", 0)
  /\ auth' = IF outcome.ok
             THEN AuthState("none", Undefined, Undefined, Undefined, FALSE, NoText)
             ELSE Failed(auth, <<"Failed to logout">>)
  /\ inflight' = Remove(inflight, i)
  /\ AuthStep("settle", "logout", outcome, <<>>)
  /\ UNCHANGED <<pollIntervals, pollTimeouts, refreshInterval, timers, authType>>

\* The catch of startOAuthFlow.
startOAuthFlowRejected(a, message) ==
  IF Includes(message, OutsideTauri)
  THEN Failed(a, <<"OAuth not available in browser mode">>)
  ELSE Failed(a, <<"Failed to start authentication flow">>)

\* startOAuthFlow() up to its first await.
startOAuthFlow ==
  /\ Len(inflight) < MaxInflight
  /\ auth' = LoadingStarted(auth)
  /\ inflight' = Append(inflight, Invoke("start_login_flow", "startOAuthFlow", 0))
  /\ AuthStep("call", "startOAuthFlow", NoText, <<>>)
  /\ UNCHANGED <<pollIntervals, pollTimeouts, refreshInterval, timers, authType>>

\* start_login_flow settles: on success the auth URL is opened.
startLoginFlowSettles(i, outcome) ==
  /\ inflight[i] = Invoke("start_login_flow", "startOAuthFlow", 0)
  /\ auth' = IF outcome.ok THEN auth ELSE startOAuthFlowRejected(auth, outcome.message)
  /\ inflight' = IF outcome.ok
                 THEN Append(Remove(inflight, i), Invoke("plugin:opener|open", "startOAuthFlow", 0))
                 ELSE Remove(inflight, i)
  /\ AuthStep("settle", "startOAuthFlow", outcome, <<>>)
  /\ UNCHANGED <<pollIntervals, pollTimeouts, refreshInterval, timers, authType>>

\* plugin:opener|open settles: on success pollForCompletion() sets the
\* polling interval and the five-minute timeout of flow.
openerSettles(i, outcome, flow) ==
  /\ inflight[i] = Invoke("plugin:opener|open", "startOAuthFlow", 0)
  /\ outcome.ok => /\ flow \notin pollTimeouts
                   /\ \A j \in DOMAIN inflight : inflight[j].flow # flow
  /\ auth' = IF outcome.ok THEN auth ELSE startOAuthFlowRejected(auth, outcome.message)
  /\ inflight' = Remove(inflight, i)
  /\ pollIntervals' = IF outcome.ok THEN pollIntervals \cup {flow} ELSE pollIntervals
  /\ pollTimeouts' = IF outcome.ok THEN pollTimeouts \cup {flow} ELSE pollTimeouts
  /\ AuthStep("settle", "startOAuthFlow", outcome, <<>>)
  /\ UNCHANGED <<refreshInterval, timers, authType>>

\* The polling interval of flow fires.
pollForCompletion(flow) ==
  /\ flow \in pollIntervals
  /\ Len(inflight) < MaxInflight
  /\ inflight' = Append(inflight, Invoke("get_auth_status", "pollForCompletion", flow))
  /\ AuthStep("interval", "pollForCompletion", NoText, <<>>)
  /\ UNCHANGED <<auth, pollIntervals, pollTimeouts, refreshInterval, timers, authType>>

\* The get_auth_status of a poll settles: a chatgpt status clears the interval
\* and goes on into checkAuthStatus; anything else, a failure too, is ignored.
pollSettles(i, outcome) ==
  LET done == outcome.ok /\ StartsWithChatgpt(outcome.value)
  IN /\ inflight[i].by = "pollForCompletion"
     /\ pollIntervals' = IF done THEN pollIntervals \ {inflight[i].flow} ELSE pollIntervals
     /\ auth' = IF done THEN LoadingStarted(auth) ELSE auth
     /\ inflight' = IF done
                    THEN Append(Remove(inflight, i), Invoke("get_auth_status", "checkAuthStatus", 0))
                    ELSE Remove(inflight, i)
     /\ AuthStep("settle", "pollForCompletion", outcome, <<>>)
     /\ UNCHANGED <<pollTimeouts, refreshInterval, timers, authType>>

\* The five-minute timeout of flow fires.
pollTimeout(flow) ==
  /\ flow \in pollTimeouts
  /\ pollIntervals' = pollIntervals \ {flow}
  /\ pollTimeouts' = pollTimeouts \ {flow}
  /\ auth' = [auth EXCEPT !.isLoading = FALSE]
  /\ AuthStep("timeout", "pollForCompletion", NoText, <<>>)
  /\ UNCHANGED <<inflight, refreshInterval, timers, authType>>

clearError ==
  /\ auth' = [auth EXCEPT !.error = NoText]
  /\ AuthStep("call", "clearError", NoText, <<>>)
  /\ UNCHANGED <<inflight, pollIntervals, pollTimeouts, refreshInterval, timers, authType>>

setLoading(loading) ==
  /\ auth' = [auth EXCEPT !.isLoading = loading]
  /\ AuthStep("call", "setLoading", NoText, <<>>)
  /\ UNCHANGED <<inflight, pollIntervals, pollTimeouts, refreshInterval, timers, authType>>

\* One awaited call of the auth store settles, in any order.
Settles ==
  \E i \in DOMAIN inflight :
    \/ \E outcome \in StatusOutcomes : checkAuthStatusSettles(i, outcome)
    \/ \E outcome \in CommandOutcomes : loginWithApiKeySettles(i, outcome)
    \/ \E outcome \in CommandOutcomes : logoutSettles(i, outcome)
    \/ \E outcome \in CommandOutcomes : startLoginFlowSettles(i, outcome)
    \/ \E outcome \in CommandOutcomes, flow \in 1..MaxFlows : openerSettles(i, outcome, flow)
    \/ \E outcome \in StatusOutcomes : pollSettles(i, outcome)

\* The auth store: its functions called at any time, their awaits settling
\* in any order with any outcome.
NextAuth ==
  \/ checkAuthStatus
  \/ loginWithApiKey
  \/ logout
  \/ startOAuthFlow
  \/ Settles
  \/ \E flow \in 1..MaxFlows : pollForCompletion(flow)
  \/ \E flow \in 1..MaxFlows : pollTimeout(flow)
  \/ clearError
  \/ \E loading \in BOOLEAN : setLoading(loading)

SpecAuth == Init /\ [][NextAuth]_vars

\* C36: checkAuthStatus always terminates the loading state. When
\* checkAuthStatus completes, whatever get_auth_status returned and also when
\* it failed, auth.isLoading is false; the same when loginWithApiKey (which
\* completes in its catch or with the checkAuthStatus it awaits) or logout
\* completes.
C36_LoadingTerminates ==
  [][LET e == lastEvent'
     IN /\ (e.type = "settle" /\ e.id \in {"checkAuthStatus", "logout"}) => ~auth'.isLoading
        /\ (e.type = "settle" /\ e.id = "loginWithApiKey" /\ ~e.arg.ok) => ~auth'.isLoading
    ]_vars

\* The identity part of the AuthState a.
Identity(a) == <<a.type, a.email, a.plan, a.valid>>

\* C37: Auth identity is unchanged on error. When the backend call of
\* checkAuthStatus fails outside browser mode (isTauriContext() holds), or the
\* backend call of loginWithApiKey, logout or startOAuthFlow fails, auth.type,
\* email, plan and valid keep their values, isLoading becomes false and error
\* is set to a message.
C37_IdentityKeptOnError ==
  [][LET e == lastEvent'
     IN (/\ e.type = "settle" /\ ~e.arg.ok
         /\ e.id \in {"checkAuthStatus", "loginWithApiKey", "logout", "startOAuthFlow"}
         /\ e.id = "checkAuthStatus" => e.arg.tauri)
        => /\ Identity(auth') = Identity(auth)
           /\ ~auth'.isLoading
           /\ auth'.error # NoText
    ]_vars

(* ----------------------------- token manager --------------------------- *)

\* A call the token manager or the auth hook makes.
TokenCall(op) == Call(op, NoSession, NoId, "", "unset")

\* checkAndRefreshTokens(): it calls checkAuthStatus() only for ChatGPT
\* authentication. a and fl are the AuthState and the awaited calls.
checkAndRefreshTokens(a, fl) ==
  IF a.type = "chatgpt"
  THEN [auth |-> LoadingStarted(a),
        inflight |-> Append(fl, Invoke("get_auth_status", "checkAuthStatus", 0))]
  ELSE [auth |-> a, inflight |-> fl]

\* The id setInterval returns: one that no interval it holds has.
NewTimer(tm) == CHOOSE id \in 1..MaxTimers : id \notin tm

\* TokenManager.stop() with refreshInterval ri and the held intervals tm.
TokenManagerStop(ri, tm) ==
  [refreshInterval |-> 0, timers |-> IF ri # 0 THEN tm \ {ri} ELSE tm]

\* A variant of TokenManager.start() that does not stop the interval it holds.
TokenManagerStartKeepsOld(a, fl, ri, tm) ==
  [refreshInterval |-> NewTimer(tm),
   timers |-> tm \cup {NewTimer(tm)},
   auth |-> checkAndRefreshTokens(a, fl).auth,
   inflight |-> checkAndRefreshTokens(a, fl).inflight,
   calls |-> <<TokenCall("checkAndRefreshTokens")>>]

\* TokenManager.start(): stop() if an interval is held, setInterval, then
\* checkAndRefreshTokens() at once.
TokenManagerStart(a, fl, ri, tm) ==
  [refreshInterval |-> NewTimer(tm),
   timers |-> TokenManagerStop(ri, tm).timers \cup {NewTimer(tm)},
   auth |-> checkAndRefreshTokens(a, fl).auth,
   inflight |-> checkAndRefreshTokens(a, fl).inflight,
   calls |-> <<TokenCall("checkAndRefreshTokens")>>]

\* Room for what start() adds (the model's bounds).
CanStart(a, fl, tm) ==
  /\ Cardinality(tm) < MaxTimers
  /\ a.type = "chatgpt" => Len(fl) < MaxInflight

\* tokenManager.start() called.
start ==
  LET r == TokenManagerStart(auth, inflight, refreshInterval, timers)
  IN /\ CanStart(auth, inflight, timers)
     /\ refreshInterval' = r.refreshInterval
     /\ timers' = r.timers
     /\ auth' = r.auth
     /\ inflight' = r.inflight
     /\ AuthStep("call", "TokenManager.start", NoText, r.calls)
     /\ UNCHANGED <<pollIntervals, pollTimeouts, authType>>

\* tokenManager.stop() called.
stop ==
  LET r == TokenManagerStop(refreshInterval, timers)
  IN /\ refreshInterval' = r.refreshInterval
     /\ timers' = r.timers
     /\ AuthStep("call", "TokenManager.stop", NoText, <<>>)
     /\ UNCHANGED <<auth, inflight, pollIntervals, pollTimeouts, authType>>

\* The refresh interval id fires.
refreshIntervalFires(id) ==
  LET r == checkAndRefreshTokens(auth, inflight)
  IN /\ id \in timers
     /\ auth.type = "chatgpt" => Len(inflight) < MaxInflight
     /\ auth' = r.auth
     /\ inflight' = r.inflight
     /\ AuthStep("interval", "TokenManager", NoText, <<TokenCall("checkAndRefreshTokens")>>)
     /\ UNCHANGED <<pollIntervals, pollTimeouts, refreshInterval, timers, authType>>

(* --------------------------- useAuthInitialization --------------------- *)

\* The second effect of the hook for the rendered auth.type t, run after the
\* cleanup (if any) left refreshInterval ri and the intervals tm.
StartOrStop(t, a, fl, ri, tm) ==
  IF t = "chatgpt" THEN TokenManagerStart(a, fl, ri, tm)
  ELSE [refreshInterval |-> TokenManagerStop(ri, tm).refreshInterval,
        timers |-> TokenManagerStop(ri, tm).timers,
        auth |-> a, inflight |-> fl, calls |-> <<>>]

\* The hook mounts: it renders with the store's auth.type, its first effect
\* calls checkAuthStatus(), its second starts or stops the token manager.
Mount ==
  LET a1 == LoadingStarted(auth)
      fl1 == Append(inflight, Invoke("get_auth_status", "checkAuthStatus", 0))
      r == StartOrStop(auth.type, a1, fl1, refreshInterval, timers)
  IN /\ authType = "unmounted"
     /\ Len(inflight) < MaxInflight
     /\ auth.type = "chatgpt" => CanStart(a1, fl1, timers)
     /\ authType' = auth.type
     /\ refreshInterval' = r.refreshInterval
     /\ timers' = r.timers
     /\ auth' = r.auth
     /\ inflight' = r.inflight
     /\ AuthStep("effect", "useAuthInitialization", "mount",
                 <<TokenCall("checkAuthStatus")>> \o r.calls)
     /\ UNCHANGED <<pollIntervals, pollTimeouts>>

\* auth.type has changed: the hook renders again, the cleanup of the second
\* effect stops the token manager and the effect runs for the new type.
Rerender ==
  LET c == TokenManagerStop(refreshInterval, timers)
      r == StartOrStop(auth.type, auth, inflight, c.refreshInterval, c.timers)
  IN /\ authType \notin {"unmounted", auth.type}
     /\ auth.type = "chatgpt" => CanStart(auth, inflight, c.timers)
     /\ authType' = auth.type
     /\ refreshInterval' = r.refreshInterval
     /\ timers' = r.timers
     /\ auth' = r.auth
     /\ inflight' = r.inflight
     /\ AuthStep("effect", "useAuthInitialization", "render", r.calls)
     /\ UNCHANGED <<pollIntervals, pollTimeouts>>

\* The hook unmounts: the cleanup stops the token manager.
Unmount ==
  LET c == TokenManagerStop(refreshInterval, timers)
  IN /\ authType # "unmounted"
     /\ authType' = "unmounted"
     /\ refreshInterval' = c.refreshInterval
     /\ timers' = c.timers
     /\ AuthStep("effect", "useAuthInitialization", "unmount", <<>>)
     /\ UNCHANGED <<auth, inflight, pollIntervals, pollTimeouts>>

\* The token manager: driven by the hook while it is mounted, called through
\* useTokenManager while it is not; status checks settle in between.
NextTokenManager ==
  \/ authType = "unmounted" /\ start
  \/ authType = "unmounted" /\ stop
  \/ \E id \in 1..MaxTimers : refreshIntervalFires(id)
  \/ Mount
  \/ Rerender
  \/ Unmount
  \/ \E i \in DOMAIN inflight :
       \E status \in {NoText, <<"api_key">>, <<"chatgpt", "me@x", "plus">>} :
         checkAuthStatusSettles(i, Resolved(status))

SpecTokenManager == Init /\ [][NextTokenManager]_vars

\* The checkAndRefreshTokens() calls among cs.
RefreshChecks(cs) == {i \in DOMAIN cs : cs[i].op = "checkAndRefreshTokens"}

\* What C38 says of the token manager on its own: at most one refresh interval
\* is active and it is the one the manager holds; a start() leaves one active
\* and calls checkAndRefreshTokens() exactly once; a stop() leaves none active;
\* no other step but the hook's effects changes the intervals.
TokenManagerKeepsOne ==
  LET e == lastEvent'
  IN /\ Cardinality(timers') <= 1
     /\ timers' = IF refreshInterval' = 0 THEN {} ELSE {refreshInterval'}
     /\ e.id = "TokenManager.start"
          => /\ timers' # {}
             /\ Cardinality(RefreshChecks(calls')) = 1
             /\ Len(inflight') = Len(inflight) + (IF auth.type = "chatgpt" THEN 1 ELSE 0)
     /\ e.id = "TokenManager.stop" => timers' = {}
     /\ e.id \notin {"TokenManager.start", "TokenManager.stop", "useAuthInitialization"}
          => timers' = timers
     /\ (e.id = "useAuthInitialization" /\ timers' # {})
          => Cardinality(RefreshChecks(calls')) = 1

\* C38 as stated: the token manager keeps at most one refresh interval, active
\* iff the last call was start(), every start() checks once at once, and while
\* useAuthInitialization is mounted an interval is active only while the
\* store's auth.type is "chatgpt".
C38_AsStated ==
  [][/\ TokenManagerKeepsOne
     /\ authType' # "unmounted" => (timers' # {} => auth'.type = "chatgpt")]_vars

\* C38, amended: the token manager keeps at most one refresh interval, active
\* iff the last call was start(), every start() calls checkAndRefreshTokens()
\* once at once, and while useAuthInitialization is mounted an interval is
\* active exactly when the auth.type its last effect run rendered with is
\* "chatgpt".
C38_OneRefreshInterval ==
  [][/\ TokenManagerKeepsOne
     /\ authType' # "unmounted" => (timers' # {} <=> authType' = "chatgpt")]_vars

\* start() was called while an interval was held: the new one is the only one.
C38_Witness ==
  /\ lastEvent.id = "TokenManager.start"
  /\ refreshInterval = 2
  /\ timers = {2}
  /\ Cardinality(RefreshChecks(calls)) = 1

====
